---- MODULE Spec2Model ----
(***************************************************************************)
(* Mining Data Analytics API: the relational store (mining_shifts,         *)
(* production_records, equipment, maintenance_logs), the request handlers  *)
(* that write it and the analytics queries of MiningService that read it;  *)
(* the users table and the bearer token check in front of the handlers;    *)
(* requests handled side by side, statement by statement, against the      *)
(* constraints of the store; and the Celery jobs of mining_tasks.          *)
(*                                                                         *)
(* Units: tonnes, percentages and operating hours are kept in tenths       *)
(* (100 = 10.0 t, 55 = 5.5 t, 20 = 2.0 %, 30 = 3.0 h), so the sums are     *)
(* exact integers.  An SQL AVG is an exact fraction [num, den] in lowest   *)
(* terms, in the same tenths.  A value rounded to two decimal places is    *)
(* kept in hundredths (333 = 3.33).  Dates are day numbers.                *)
(***************************************************************************)
EXTENDS Integers, Sequences, FiniteSets, TLC

VARIABLES
    mining_shifts,            \* table mining_shifts: id -> row
    production_records,       \* table production_records: id -> row
    equipment,                \* table equipment: id -> row
    maintenance_logs,         \* table maintenance_logs: id -> row
    mining_shifts_id_seq,     \* last value of the serial sequence of mining_shifts.id
    production_records_id_seq,\* last value of the serial sequence of production_records.id
    response,                 \* what the last request returned to its caller
    users,                    \* table users: id -> row
    token,                    \* the credentials the last request carried
    inflight,                 \* the requests being handled side by side: slot -> its position
    jobs                      \* the scheduled job invocations: slot -> its position

vars == <<mining_shifts, production_records, equipment, maintenance_logs,
          mining_shifts_id_seq, production_records_id_seq, response,
          users, token, inflight, jobs>>

(* The state the handler bodies of the four domain tables do not touch *)
others == <<users, token, inflight, jobs>>

----------------------------------------------------------------------------
(* Bounds of the model *)

MaxDate == 2
MaxShifts == 2
MaxRecords == 2
MaxEquipment == 2
MaxLogs == 6

(* SQL NULL / Python None in a nullable column or an optional field *)
NULL == -1

(* A Boolean column or argument, which may also be NULL / None *)
False == 0
True == 1

Dates == 1..MaxDate

(* Request payloads the handlers are driven with.  A shift is created with *)
(* a crew of 2 and gets a crew of 5 by an update.                          *)
WorkerCounts == {2}

Measurements ==
    { [ore_extracted_tonnes |-> 100, waste_removed_tonnes |-> 40, ore_grade_percentage |-> 20],
      [ore_extracted_tonnes |-> 55,  waste_removed_tonnes |-> 15, ore_grade_percentage |-> 30] }

EquipmentCodes == 1..MaxEquipment

(* model_dump(exclude_unset=True) of an update request: the fields the     *)
(* request carries, an explicit null included                              *)
ShiftPatches == { [workers_count |-> 5] }

RecordPatches == { [ore_extracted_tonnes |-> NULL, ore_grade_percentage |-> NULL] }

EquipmentPatches == { [status |-> "maintenance"] }

LogPatches == { [is_completed |-> True] }

----------------------------------------------------------------------------
(* Rows.  updated_at (default utcnow, onupdate utcnow) is kept as the      *)
(* number of UPDATE statements that have written the row since its INSERT: *)
(* each UPDATE sets the column to a later reading of the clock, so the     *)
(* column's value changes exactly when this number does.                   *)

MiningShift(shift_date, workers_count) ==
    [shift_date |-> shift_date, workers_count |-> workers_count, updated_at |-> 0]

ProductionRecord(shift_id, equipment_id, m) ==
    [shift_id |-> shift_id, equipment_id |-> equipment_id,
     ore_extracted_tonnes |-> m.ore_extracted_tonnes,
     waste_removed_tonnes |-> m.waste_removed_tonnes,
     ore_grade_percentage |-> m.ore_grade_percentage,
     updated_at |-> 0]

Equipment(equipment_code) ==
    [equipment_code |-> equipment_code, status |-> "operational",
     operating_hours |-> 0, next_maintenance_date |-> NULL, updated_at |-> 0]

MaintenanceLog(equipment_id) ==
    [equipment_id |-> equipment_id, is_completed |-> False, completed_date |-> NULL,
     updated_at |-> 0]

(* The id a serial primary key gives the next inserted row of a table      *)
(* that never loses a row and never fails an INSERT                        *)
NextId(table) == Cardinality(DOMAIN table) + 1

(* INSERT of one row under the given id *)
InsertAt(table, id, row) ==
    [i \in DOMAIN table \cup {id} |-> IF i \in DOMAIN table THEN table[i] ELSE row]

(* INSERT of one row under a fresh id *)
Insert(table, row) == InsertAt(table, NextId(table), row)

(* DELETE of the row with the given id *)
Delete(table, id) == [i \in DOMAIN table \ {id} |-> table[i]]

(* An update built from model_dump() without exclude_unset: a field the    *)
(* request does not carry is set to None                                   *)
ApplyPatch_unset_as_none(row, update_data) ==
    [key \in DOMAIN row |->
        IF key \in DOMAIN update_data THEN update_data[key] ELSE NULL]

(* for key, value in update_data.items(): setattr(row, key, value) *)
ApplyPatch(row, update_data) ==
    [key \in DOMAIN row |->
        IF key \in DOMAIN update_data THEN update_data[key] ELSE row[key]]

(* db.commit() of a row the handler has set attributes on: no statement    *)
(* when no attribute got a new value, else one UPDATE, which also sets     *)
(* updated_at (onupdate)                                                   *)
Flush(row, changed) ==
    IF changed = row THEN row
    ELSE [changed EXCEPT !.updated_at = row.updated_at + 1]

(* Python truthiness of an optional integer: None and 0 are false *)
Truthy(v) == v # NULL /\ v # 0

(* response_model validation of the row a handler returns: a field the     *)
(* response schema declares as a plain int or float must not be None; the  *)
(* request has been committed by then and is answered 500                  *)
MiningShiftResponse(row) == row.shift_date # NULL /\ row.workers_count # NULL

ProductionRecordResponse(row) ==
    /\ row.shift_id # NULL
    /\ row.ore_extracted_tonnes # NULL
    /\ row.waste_removed_tonnes # NULL
    /\ row.ore_grade_percentage # NULL

EquipmentStatus == {"operational", "maintenance", "repair", "decommissioned"}

EquipmentResponse(row) ==
    /\ row.equipment_code # NULL
    /\ row.status \in EquipmentStatus
    /\ row.operating_hours # NULL

MaintenanceLogResponse(row) == row.equipment_id # NULL /\ row.is_completed # NULL

----------------------------------------------------------------------------
(* Write handlers *)

create_shift(shift_date, workers_count) ==
    /\ mining_shifts_id_seq < MaxShifts
    /\ mining_shifts_id_seq' = mining_shifts_id_seq + 1
    /\ mining_shifts' = InsertAt(mining_shifts, mining_shifts_id_seq + 1,
                                 MiningShift(shift_date, workers_count))
    /\ response' = [op |-> "create_shift", status |-> 201]
    /\ UNCHANGED <<production_records, equipment, maintenance_logs,
                   production_records_id_seq>>

(* An update that stores the request as a new shift when the id is free *)
update_shift_upsert(shift_id, update_data) ==
    /\ mining_shifts' =
            IF shift_id \in DOMAIN mining_shifts
            THEN [mining_shifts EXCEPT
                    ![shift_id] = Flush(mining_shifts[shift_id],
                                        ApplyPatch(mining_shifts[shift_id], update_data))]
            ELSE InsertAt(mining_shifts, shift_id,
                          ApplyPatch(MiningShift(MaxDate, 0), update_data))
    /\ response' = [op |-> "update_shift", id |-> shift_id, status |-> 200]
    /\ UNCHANGED <<production_records, equipment, maintenance_logs,
                   mining_shifts_id_seq, production_records_id_seq>>

update_shift(shift_id, update_data) ==
    /\ IF shift_id \in DOMAIN mining_shifts
       THEN /\ mining_shifts' = [mining_shifts EXCEPT
                    ![shift_id] = Flush(mining_shifts[shift_id],
                                        ApplyPatch(mining_shifts[shift_id], update_data))]
            /\ response' = [op |-> "update_shift", id |-> shift_id,
                            status |-> IF MiningShiftResponse(mining_shifts'[shift_id])
                                       THEN 200 ELSE 500]
       ELSE /\ UNCHANGED mining_shifts
            /\ response' = [op |-> "update_shift", id |-> shift_id, status |-> 404]
    /\ UNCHANGED <<production_records, equipment, maintenance_logs,
                   mining_shifts_id_seq, production_records_id_seq>>

(* The shift has a relationship to its production records with no delete   *)
(* cascade: the flush first sets shift_id of every record of the shift to  *)
(* NULL, which the NOT NULL column refuses; the IntegrityError is not      *)
(* caught, the transaction is rolled back and the request is answered 500  *)
delete_shift(shift_id) ==
    /\ IF shift_id \notin DOMAIN mining_shifts
       THEN /\ response' = [op |-> "delete_shift", id |-> shift_id, status |-> 404]
            /\ UNCHANGED mining_shifts
       ELSE IF \E r \in DOMAIN production_records :
                    production_records[r].shift_id = shift_id
       THEN /\ response' = [op |-> "delete_shift", id |-> shift_id, status |-> 500]
            /\ UNCHANGED mining_shifts
       ELSE /\ mining_shifts' = Delete(mining_shifts, shift_id)
            /\ response' = [op |-> "delete_shift", id |-> shift_id, status |-> 204]
    /\ UNCHANGED <<production_records, equipment, maintenance_logs,
                   mining_shifts_id_seq, production_records_id_seq>>

(* The handler checks the shift, and the equipment when equipment_id is    *)
(* truthy.  An equipment_id the check lets through that names no equipment *)
(* fails the foreign key at the INSERT: the sequence value is spent, no    *)
(* row is stored and the uncaught IntegrityError is answered 500           *)
create_production_record(shift_id, equipment_id, m) ==
    /\ production_records_id_seq < MaxRecords
    /\ IF shift_id \notin DOMAIN mining_shifts
       THEN /\ response' = [op |-> "create_production_record", shift_id |-> shift_id,
                            equipment_id |-> equipment_id, status |-> 400]
            /\ UNCHANGED <<production_records, production_records_id_seq>>
       ELSE IF Truthy(equipment_id) /\ equipment_id \notin DOMAIN equipment
       THEN /\ response' = [op |-> "create_production_record", shift_id |-> shift_id,
                            equipment_id |-> equipment_id, status |-> 400]
            /\ UNCHANGED <<production_records, production_records_id_seq>>
       ELSE IF equipment_id # NULL /\ equipment_id \notin DOMAIN equipment
       THEN /\ response' = [op |-> "create_production_record", shift_id |-> shift_id,
                            equipment_id |-> equipment_id, status |-> 500]
            /\ production_records_id_seq' = production_records_id_seq + 1
            /\ UNCHANGED production_records
       ELSE /\ production_records' =
                    InsertAt(production_records, production_records_id_seq + 1,
                             ProductionRecord(shift_id, equipment_id, m))
            /\ production_records_id_seq' = production_records_id_seq + 1
            /\ response' = [op |-> "create_production_record", shift_id |-> shift_id,
                            equipment_id |-> equipment_id, status |-> 201]
    /\ UNCHANGED <<mining_shifts, equipment, maintenance_logs, mining_shifts_id_seq>>

update_production_record(record_id, update_data) ==
    /\ IF record_id \in DOMAIN production_records
       THEN /\ production_records' = [production_records EXCEPT
                    ![record_id] = Flush(production_records[record_id],
                                         ApplyPatch(production_records[record_id],
                                                    update_data))]
            /\ response' = [op |-> "update_production_record", id |-> record_id,
                            status |-> IF ProductionRecordResponse(production_records'[record_id])
                                       THEN 200 ELSE 500]
       ELSE /\ UNCHANGED production_records
            /\ response' = [op |-> "update_production_record", id |-> record_id, status |-> 404]
    /\ UNCHANGED <<mining_shifts, equipment, maintenance_logs,
                   mining_shifts_id_seq, production_records_id_seq>>

(* A registration that does not look the code up first *)
create_equipment_unchecked(equipment_code) ==
    /\ NextId(equipment) <= MaxEquipment
    /\ equipment' = Insert(equipment, Equipment(equipment_code))
    /\ response' = [op |-> "create_equipment", equipment_code |-> equipment_code,
                    status |-> 201]
    /\ UNCHANGED <<mining_shifts, production_records, maintenance_logs,
                   mining_shifts_id_seq, production_records_id_seq>>

create_equipment(equipment_code) ==
    /\ NextId(equipment) <= MaxEquipment
    /\ IF \E id \in DOMAIN equipment : equipment[id].equipment_code = equipment_code
       THEN /\ response' = [op |-> "create_equipment", equipment_code |-> equipment_code,
                             status |-> 400]
            /\ UNCHANGED equipment
       ELSE /\ equipment' = Insert(equipment, Equipment(equipment_code))
            /\ response' = [op |-> "create_equipment", equipment_code |-> equipment_code,
                             status |-> 201]
    /\ UNCHANGED <<mining_shifts, production_records, maintenance_logs,
                   mining_shifts_id_seq, production_records_id_seq>>

update_equipment(equipment_id, update_data) ==
    /\ IF equipment_id \in DOMAIN equipment
       THEN /\ equipment' = [equipment EXCEPT
                    ![equipment_id] = Flush(equipment[equipment_id],
                                            ApplyPatch(equipment[equipment_id], update_data))]
            /\ response' = [op |-> "update_equipment", id |-> equipment_id,
                            status |-> IF EquipmentResponse(equipment'[equipment_id])
                                       THEN 200 ELSE 500]
       ELSE /\ UNCHANGED equipment
            /\ response' = [op |-> "update_equipment", id |-> equipment_id, status |-> 404]
    /\ UNCHANGED <<mining_shifts, production_records, maintenance_logs,
                   mining_shifts_id_seq, production_records_id_seq>>

create_maintenance_log(equipment_id) ==
    /\ IF equipment_id \notin DOMAIN equipment
       THEN /\ response' = [op |-> "create_maintenance_log", status |-> 400]
            /\ UNCHANGED maintenance_logs
       ELSE /\ maintenance_logs' = Insert(maintenance_logs, MaintenanceLog(equipment_id))
            /\ response' = [op |-> "create_maintenance_log", status |-> 201]
    /\ UNCHANGED <<mining_shifts, production_records, equipment,
                   mining_shifts_id_seq, production_records_id_seq>>

update_maintenance_log(log_id, update_data) ==
    /\ IF log_id \in DOMAIN maintenance_logs
       THEN /\ maintenance_logs' = [maintenance_logs EXCEPT
                    ![log_id] = Flush(maintenance_logs[log_id],
                                      ApplyPatch(maintenance_logs[log_id], update_data))]
            /\ response' = [op |-> "update_maintenance_log", id |-> log_id,
                            status |-> IF MaintenanceLogResponse(maintenance_logs'[log_id])
                                       THEN 200 ELSE 500]
       ELSE /\ UNCHANGED maintenance_logs
            /\ response' = [op |-> "update_maintenance_log", id |-> log_id, status |-> 404]
    /\ UNCHANGED <<mining_shifts, production_records, equipment,
                   mining_shifts_id_seq, production_records_id_seq>>

----------------------------------------------------------------------------
(* Keyed reads: the row, or not found *)

get_shift(shift_id) ==
    /\ response' = [op |-> "get_shift", id |-> shift_id,
                    status |-> IF shift_id \notin DOMAIN mining_shifts THEN 404
                               ELSE IF MiningShiftResponse(mining_shifts[shift_id])
                               THEN 200 ELSE 500]
    /\ UNCHANGED <<mining_shifts, production_records, equipment, maintenance_logs,
                   mining_shifts_id_seq, production_records_id_seq>>

get_production_record(record_id) ==
    /\ response' = [op |-> "get_production_record", id |-> record_id,
                    status |-> IF record_id \notin DOMAIN production_records THEN 404
                               ELSE IF ProductionRecordResponse(production_records[record_id])
                               THEN 200 ELSE 500]
    /\ UNCHANGED <<mining_shifts, production_records, equipment, maintenance_logs,
                   mining_shifts_id_seq, production_records_id_seq>>

get_equipment(equipment_id) ==
    /\ response' = [op |-> "get_equipment", id |-> equipment_id,
                    status |-> IF equipment_id \notin DOMAIN equipment THEN 404
                               ELSE IF EquipmentResponse(equipment[equipment_id])
                               THEN 200 ELSE 500]
    /\ UNCHANGED <<mining_shifts, production_records, equipment, maintenance_logs,
                   mining_shifts_id_seq, production_records_id_seq>>

----------------------------------------------------------------------------
(* SQL aggregates over a set of result rows.  col maps a row key to the    *)
(* column's value in that row; NULL values are skipped by every aggregate. *)

RECURSIVE GCD(_, _)
GCD(a, b) == IF b = 0 THEN a ELSE GCD(b, a % b)

(* The exact quotient num/den (den > 0) in lowest terms *)
Frac(num, den) ==
    LET g == GCD(num, den) IN [num |-> num \div g, den |-> den \div g]

(* The NULL an AVG over no value yields: a fraction with no denominator *)
NullFrac == [num |-> 0, den |-> 0]

NonNullRows(col, rows) == {r \in rows : col[r] # NULL}

RECURSIVE Total(_, _)
Total(col, rows) ==
    IF rows = {} THEN 0
    ELSE LET r == CHOOSE x \in rows : TRUE IN col[r] + Total(col, rows \ {r})

(* func.sum: NULL when no row has a value *)
SqlSum(col, rows) ==
    IF NonNullRows(col, rows) = {} THEN NULL ELSE Total(col, NonNullRows(col, rows))

(* func.avg: NULL when no row has a value *)
SqlAvg(col, rows) ==
    IF NonNullRows(col, rows) = {} THEN NullFrac
    ELSE Frac(Total(col, NonNullRows(col, rows)), Cardinality(NonNullRows(col, rows)))

(* func.count(column) *)
SqlCount(col, rows) == Cardinality(NonNullRows(col, rows))

(* func.count(func.distinct(column)) *)
SqlCountDistinct(col, rows) == Cardinality({col[r] : r \in NonNullRows(col, rows)})

(* A report that passes an aggregate through without its default *)
OrDefault_none_passed(value, default) == value

(* Python's `value or default` on a number or None *)
OrDefault(value, default) == IF value = NULL \/ value = 0 THEN default ELSE value

(* Python's `value or 0.0` on an average or None *)
OrZeroFrac(value) == IF value.den = 0 \/ value.num = 0 THEN [num |-> 0, den |-> 1] ELSE value

(* One column of a table, as a map from the row's id *)
Column(table, name) == [id \in DOMAIN table |-> table[id][name]]

(* A date filter that leaves the end date out *)
ShiftsInRange_end_exclusive(start_date, end_date) ==
    {s \in DOMAIN mining_shifts :
        /\ mining_shifts[s].shift_date >= start_date
        /\ mining_shifts[s].shift_date < end_date}

(* A date filter that takes the two dates in either order *)
ShiftsInRange_either_order(start_date, end_date) ==
    {s \in DOMAIN mining_shifts :
        \/ /\ mining_shifts[s].shift_date >= start_date
           /\ mining_shifts[s].shift_date <= end_date
        \/ /\ mining_shifts[s].shift_date >= end_date
           /\ mining_shifts[s].shift_date <= start_date}

(* MiningShift.shift_date >= start_date AND MiningShift.shift_date <= end_date *)
ShiftsInRange(start_date, end_date) ==
    {s \in DOMAIN mining_shifts :
        /\ mining_shifts[s].shift_date >= start_date
        /\ mining_shifts[s].shift_date <= end_date}

(* ProductionRecord JOIN MiningShift ON shift_id = MiningShift.id, with    *)
(* the date filter: one result row per production record whose shift       *)
(* exists and lies in the range, keyed by the record's id                  *)
JoinedRecords(start_date, end_date) ==
    {r \in DOMAIN production_records :
        \E s \in ShiftsInRange(start_date, end_date) : production_records[r].shift_id = s}

----------------------------------------------------------------------------
(* Analytics operations *)

(* The grade averaged with each record weighted by its tonnes of ore *)
ProductionStats_grade_by_tonnes(start_date, end_date) ==
    LET rows == JoinedRecords(start_date, end_date)
        graded == {r \in rows : /\ production_records[r].ore_grade_percentage # NULL
                                /\ production_records[r].ore_extracted_tonnes # NULL}
        total_ore == SqlSum(Column(production_records, "ore_extracted_tonnes"), rows)
        total_waste == SqlSum(Column(production_records, "waste_removed_tonnes"), rows)
        weighted == Total([r \in graded |-> production_records[r].ore_extracted_tonnes
                                            * production_records[r].ore_grade_percentage], graded)
        weight == Total(Column(production_records, "ore_extracted_tonnes"), graded)
        avg_grade == IF weight = 0
                     THEN SqlAvg(Column(production_records, "ore_grade_percentage"), rows)
                     ELSE Frac(weighted, weight)
        shifts == ShiftsInRange(start_date, end_date)
    IN  [total_ore_extracted |-> OrDefault(total_ore, 0),
         total_waste_removed |-> OrDefault(total_waste, 0),
         average_ore_grade |-> OrZeroFrac(avg_grade),
         total_shifts |-> OrDefault(Cardinality(shifts), 0),
         average_workers_per_shift |->
            OrZeroFrac(SqlAvg(Column(mining_shifts, "workers_count"), shifts)),
         period_start |-> start_date,
         period_end |-> end_date]

(* The shift statistics taken over the joined rows, one per record *)
ProductionStats_shifts_from_join(start_date, end_date) ==
    LET rows == JoinedRecords(start_date, end_date)
        total_ore == SqlSum(Column(production_records, "ore_extracted_tonnes"), rows)
        total_waste == SqlSum(Column(production_records, "waste_removed_tonnes"), rows)
        avg_grade == SqlAvg(Column(production_records, "ore_grade_percentage"), rows)
        workers == [r \in rows |-> mining_shifts[production_records[r].shift_id].workers_count]
    IN  [total_ore_extracted |-> OrDefault(total_ore, 0),
         total_waste_removed |-> OrDefault(total_waste, 0),
         average_ore_grade |-> OrZeroFrac(avg_grade),
         total_shifts |-> OrDefault(SqlCount(Column(production_records, "shift_id"), rows), 0),
         average_workers_per_shift |-> OrZeroFrac(SqlAvg(workers, rows)),
         period_start |-> start_date,
         period_end |-> end_date]

ProductionStats(start_date, end_date) ==
    LET rows == JoinedRecords(start_date, end_date)
        total_ore == SqlSum(Column(production_records, "ore_extracted_tonnes"), rows)
        total_waste == SqlSum(Column(production_records, "waste_removed_tonnes"), rows)
        avg_grade == SqlAvg(Column(production_records, "ore_grade_percentage"), rows)
        shifts == ShiftsInRange(start_date, end_date)
        total_shifts == Cardinality(shifts)
        avg_workers == SqlAvg(Column(mining_shifts, "workers_count"), shifts)
    IN  [total_ore_extracted |-> OrDefault(total_ore, 0),
         total_waste_removed |-> OrDefault(total_waste, 0),
         average_ore_grade |-> OrZeroFrac(avg_grade),
         total_shifts |-> OrDefault(total_shifts, 0),
         average_workers_per_shift |-> OrZeroFrac(avg_workers),
         period_start |-> start_date,
         period_end |-> end_date]

get_production_stats(start_date, end_date) ==
    /\ response' = [op |-> "get_production_stats",
                    start_date |-> start_date, end_date |-> end_date,
                    body |-> ProductionStats(start_date, end_date)]
    /\ UNCHANGED <<mining_shifts, production_records, equipment, maintenance_logs,
                   mining_shifts_id_seq, production_records_id_seq>>

(* ORDER BY key ascending over distinct keys *)
RECURSIVE OrderAsc(_)
OrderAsc(keys) ==
    IF keys = {} THEN <<>>
    ELSE LET least == CHOOSE k \in keys : \A other \in keys : k <= other
         IN  <<least>> \o OrderAsc(keys \ {least})

(* Group keys taken from the shifts in range, joined to a record or not *)
DailyGroups_outer_join(start_date, end_date) ==
    {mining_shifts[s].shift_date : s \in ShiftsInRange(start_date, end_date)}

(* GROUP BY MiningShift.shift_date: the group keys of the joined rows *)
DailyGroups(start_date, end_date) ==
    {mining_shifts[production_records[r].shift_id].shift_date :
        r \in JoinedRecords(start_date, end_date)}

(* equipment_used counted per joined row, not per distinct equipment *)
DailyRow_equipment_per_row(date, start_date, end_date) ==
    LET rows == {r \in JoinedRecords(start_date, end_date) :
                    mining_shifts[production_records[r].shift_id].shift_date = date}
        total_ore == SqlSum(Column(production_records, "ore_extracted_tonnes"), rows)
        total_waste == SqlSum(Column(production_records, "waste_removed_tonnes"), rows)
        shift_count == SqlCountDistinct(Column(production_records, "shift_id"), rows)
        equipment_used == SqlCount(Column(production_records, "equipment_id"), rows)
    IN  [date |-> date,
         total_ore |-> OrDefault(total_ore, 0),
         total_waste |-> OrDefault(total_waste, 0),
         shift_count |-> OrDefault(shift_count, 0),
         equipment_used |-> OrDefault(equipment_used, 0)]

(* shift_count counted per joined row, not per distinct shift *)
DailyRow_shifts_per_row(date, start_date, end_date) ==
    LET rows == {r \in JoinedRecords(start_date, end_date) :
                    mining_shifts[production_records[r].shift_id].shift_date = date}
        total_ore == SqlSum(Column(production_records, "ore_extracted_tonnes"), rows)
        total_waste == SqlSum(Column(production_records, "waste_removed_tonnes"), rows)
        shift_count == SqlCount(Column(production_records, "shift_id"), rows)
        equipment_used == SqlCountDistinct(Column(production_records, "equipment_id"), rows)
    IN  [date |-> date,
         total_ore |-> OrDefault(total_ore, 0),
         total_waste |-> OrDefault(total_waste, 0),
         shift_count |-> OrDefault(shift_count, 0),
         equipment_used |-> OrDefault(equipment_used, 0)]

DailyRow(date, start_date, end_date) ==
    LET rows == {r \in JoinedRecords(start_date, end_date) :
                    mining_shifts[production_records[r].shift_id].shift_date = date}
        total_ore == SqlSum(Column(production_records, "ore_extracted_tonnes"), rows)
        total_waste == SqlSum(Column(production_records, "waste_removed_tonnes"), rows)
        shift_count == SqlCountDistinct(Column(production_records, "shift_id"), rows)
        equipment_used == SqlCountDistinct(Column(production_records, "equipment_id"), rows)
    IN  [date |-> date,
         total_ore |-> OrDefault(total_ore, 0),
         total_waste |-> OrDefault(total_waste, 0),
         shift_count |-> OrDefault(shift_count, 0),
         equipment_used |-> OrDefault(equipment_used, 0)]

(* The joined rows grouped by shift instead of by date: one entry per     *)
(* shift that has records, dates ascending                                 *)
DailyProduction_group_by_shift(start_date, end_date) ==
    LET joined == {production_records[r].shift_id : r \in JoinedRecords(start_date, end_date)}
        entry(s) ==
            LET rows == {r \in JoinedRecords(start_date, end_date) :
                            production_records[r].shift_id = s}
            IN  [date |-> mining_shifts[s].shift_date,
                 total_ore |-> OrDefault(
                    SqlSum(Column(production_records, "ore_extracted_tonnes"), rows), 0),
                 total_waste |-> OrDefault(
                    SqlSum(Column(production_records, "waste_removed_tonnes"), rows), 0),
                 shift_count |-> 1,
                 equipment_used |-> OrDefault(
                    SqlCountDistinct(Column(production_records, "equipment_id"), rows), 0)]
        rank(s) == Cardinality({t \in joined :
                        \/ mining_shifts[t].shift_date < mining_shifts[s].shift_date
                        \/ /\ mining_shifts[t].shift_date = mining_shifts[s].shift_date
                           /\ t <= s})
    IN  [i \in 1..Cardinality(joined) |->
            entry(CHOOSE s \in joined : rank(s) = i)]

DailyProduction(start_date, end_date) ==
    LET order == OrderAsc(DailyGroups(start_date, end_date))
    IN  [i \in 1..Len(order) |-> DailyRow(order[i], start_date, end_date)]

get_daily_production(start_date, end_date) ==
    /\ response' = [op |-> "get_daily_production",
                    start_date |-> start_date, end_date |-> end_date,
                    body |-> DailyProduction(start_date, end_date)]
    /\ UNCHANGED <<mining_shifts, production_records, equipment, maintenance_logs,
                   mining_shifts_id_seq, production_records_id_seq>>

(* The engine is PostgreSQL: in ORDER BY a NULL sorts as if larger than     *)
(* every value, so under DESC the NULLs come first.                        *)
NullsSortLargest == TRUE

(* a comes strictly before b under ORDER BY ... DESC *)
PrecedesDesc(a, b) ==
    IF NullsSortLargest
    THEN (a = NULL /\ b # NULL) \/ (a # NULL /\ b # NULL /\ a > b)
    ELSE a # NULL /\ (b = NULL \/ a > b)

(* The orders ORDER BY key DESC may return the keyed rows in: every        *)
(* arrangement in which no row comes after one it strictly precedes; the   *)
(* order among equal keys is the engine's choice                           *)
OrdersDesc(ids, key) ==
    {order \in [1..Cardinality(ids) -> ids] :
        /\ \A i, j \in DOMAIN order : i # j => order[i] # order[j]
        /\ \A i, j \in DOMAIN order : i < j => ~PrecedesDesc(key[order[j]], key[order[i]])}

(* Equipment LEFT OUTER JOIN ProductionRecord ON Equipment.id =            *)
(* ProductionRecord.equipment_id, GROUP BY Equipment.id: the group of an   *)
(* equipment is its matching records, or one row of NULLs when none does,  *)
(* over which COUNT is 0 and SUM is NULL as over no row                    *)
RecordsOfEquipment(equipment_id) ==
    {r \in DOMAIN production_records : production_records[r].equipment_id = equipment_id}

UtilizationTotalOre(equipment_id) ==
    SqlSum(Column(production_records, "ore_extracted_tonnes"), RecordsOfEquipment(equipment_id))

UtilizationRow(equipment_id) ==
    LET total_records == SqlCount([r \in DOMAIN production_records |-> r],
                                  RecordsOfEquipment(equipment_id))
        total_ore == UtilizationTotalOre(equipment_id)
    IN  [equipment_code |-> equipment[equipment_id].equipment_code,
         status |-> equipment[equipment_id].status,
         total_production_records |-> OrDefault(total_records, 0),
         total_ore_extracted |-> OrDefault(total_ore, 0)]

(* An inner join: only the equipment some record references *)
UtilizationGroups_inner_join ==
    {e \in DOMAIN equipment : RecordsOfEquipment(e) # {}}

(* outerjoin + group_by(Equipment.id): one group per equipment row *)
UtilizationGroups == DOMAIN equipment

get_equipment_utilization ==
    /\ \E order \in OrdersDesc(UtilizationGroups,
                               [e \in UtilizationGroups |-> UtilizationTotalOre(e)]) :
            response' = [op |-> "get_equipment_utilization",
                         body |-> [i \in DOMAIN order |-> UtilizationRow(order[i])]]
    /\ UNCHANGED <<mining_shifts, production_records, equipment, maintenance_logs,
                   mining_shifts_id_seq, production_records_id_seq>>

----------------------------------------------------------------------------
(* Operations summary *)

(* The ids in ORDER BY created_at DESC: a later INSERT has the larger id   *)
(* and the later created_at                                                *)
RECURSIVE OrderNewestFirst(_)
OrderNewestFirst(ids) ==
    IF ids = {} THEN <<>>
    ELSE LET newest == CHOOSE i \in ids : \A other \in ids : other <= i
         IN  <<newest>> \o OrderNewestFirst(ids \ {newest})

(* .offset(skip).limit(limit) *)
OffsetLimit(rows, skip, limit) ==
    LET last == IF skip + limit < Len(rows) THEN skip + limit ELSE Len(rows)
    IN  SubSeq(rows, skip + 1, last)

(* The maintenance logs of the given equipment (when truthy) and of the    *)
(* given completion (when not None), newest first, cut by offset and limit *)
get_maintenance_logs(skip, limit, equipment_id, is_completed) ==
    LET matching == {l \in DOMAIN maintenance_logs :
                        /\ Truthy(equipment_id) =>
                                maintenance_logs[l].equipment_id = equipment_id
                        /\ is_completed # NULL =>
                                maintenance_logs[l].is_completed = is_completed}
    IN  OffsetLimit(OrderNewestFirst(matching), skip, limit)

(* The dates date.today() is read as *)
Todays == {MaxDate + 6, MaxDate + 7}

(* The start of the summary's period: today - timedelta(days=7) *)
WeekAgo(today) == today - 7

(* equipment_util[:5] *)
TopPerformers(equipment_util) ==
    SubSeq(equipment_util, 1, IF Len(equipment_util) < 5 THEN Len(equipment_util) ELSE 5)

Summary(today, equipment_util) ==
    LET week_ago == WeekAgo(today)
        production_stats == ProductionStats(week_ago, today)
        logs == get_maintenance_logs(0, 5, NULL, False)
    IN  [period |-> [start |-> week_ago, end |-> today],
         production |-> [total_ore_extracted |-> production_stats.total_ore_extracted,
                         total_waste_removed |-> production_stats.total_waste_removed,
                         average_ore_grade |-> production_stats.average_ore_grade,
                         total_shifts |-> production_stats.total_shifts],
         equipment |-> [total_tracked |-> Len(equipment_util),
                        top_performers |-> TopPerformers(equipment_util)],
         pending_maintenance |-> Len(logs)]

(* A summary that closes the maintenance logs it has listed *)
get_summary_closing_logs(today) ==
    /\ \E order \in OrdersDesc(UtilizationGroups,
                               [e \in UtilizationGroups |-> UtilizationTotalOre(e)]) :
            response' = [op |-> "get_summary", today |-> today,
                         body |-> Summary(today,
                                    [i \in DOMAIN order |-> UtilizationRow(order[i])])]
    /\ maintenance_logs' =
            [l \in DOMAIN maintenance_logs |->
                [maintenance_logs[l] EXCEPT !.is_completed = True]]
    /\ UNCHANGED <<mining_shifts, production_records, equipment,
                   mining_shifts_id_seq, production_records_id_seq>>

get_summary(today) ==
    /\ \E order \in OrdersDesc(UtilizationGroups,
                               [e \in UtilizationGroups |-> UtilizationTotalOre(e)]) :
            response' = [op |-> "get_summary", today |-> today,
                         body |-> Summary(today,
                                    [i \in DOMAIN order |-> UtilizationRow(order[i])])]
    /\ UNCHANGED <<mining_shifts, production_records, equipment, maintenance_logs,
                   mining_shifts_id_seq, production_records_id_seq>>

----------------------------------------------------------------------------
(* Authentication: the users table, the bearer token of a request and the  *)
(* dependency every handler of the shifts, production, equipment,          *)
(* maintenance and analytics routers declares.                             *)

MaxUsers == 2

Emails == 1..MaxUsers

(* A registered user: is_active takes its column default *)
User(email) == [email |-> email, is_active |-> True]

(* The Authorization header of a request.  scheme is "bearer" when the     *)
(* header is there and is a Bearer one; signed: the token's signature      *)
(* verifies under SECRET_KEY; expired: its exp claim lies in the past;     *)
(* sub: its sub claim, the email it was issued for, or none.               *)
NoToken == [scheme |-> "none", signed |-> FALSE, expired |-> FALSE, sub |-> NULL]

Tokens ==
    { NoToken,
      [scheme |-> "bearer", signed |-> FALSE, expired |-> FALSE, sub |-> 1],
      [scheme |-> "bearer", signed |-> TRUE,  expired |-> TRUE,  sub |-> 1],
      [scheme |-> "bearer", signed |-> TRUE,  expired |-> FALSE, sub |-> NULL] }
    \cup { [scheme |-> "bearer", signed |-> TRUE, expired |-> FALSE, sub |-> e] : e \in Emails }

(* A verification that does not look at the expiry *)
verify_token_any_age(tok) == IF tok.signed THEN tok.sub ELSE NULL

(* AuthService.verify_token: jwt.decode raises JWTError on a signature     *)
(* that does not verify and on an expired token; the email of the token,   *)
(* None when it has no sub claim                                           *)
verify_token(tok) == IF tok.signed /\ ~tok.expired THEN tok.sub ELSE NULL

(* db.query(User).filter(User.email == email).first(): email is unique *)
get_user_by_email(email) ==
    IF \E u \in DOMAIN users : users[u].email = email
    THEN CHOOSE u \in DOMAIN users : users[u].email = email
    ELSE NULL

(* oauth2_scheme answers 401 to a request with no Bearer header; then the  *)
(* credentials_exception (401) for a token that does not verify and for an *)
(* email of no user; else the user                                         *)
get_current_user(tok) ==
    IF tok.scheme # "bearer" THEN [status |-> 401, user |-> NULL]
    ELSE IF verify_token(tok) = NULL THEN [status |-> 401, user |-> NULL]
    ELSE IF get_user_by_email(verify_token(tok)) = NULL THEN [status |-> 401, user |-> NULL]
    ELSE [status |-> 200, user |-> get_user_by_email(verify_token(tok))]

(* if not current_user.is_active: HTTPException(400, "Inactive user") *)
get_current_active_user(tok) ==
    LET current_user == get_current_user(tok)
    IN  IF current_user.status # 200 THEN current_user
        ELSE IF users[current_user.user].is_active # True
        THEN [status |-> 400, user |-> NULL]
        ELSE current_user

(* A request to a handler that declares                                    *)
(* current_user = Depends(get_current_active_user): the dependency is      *)
(* resolved first, and the handler's body runs only when it has returned   *)
(* a user; the HTTPException it raises otherwise is the answer             *)
Depends(tok, body) ==
    /\ token' = tok
    /\ IF get_current_active_user(tok).status = 200
       THEN body
       ELSE /\ response' = [op |-> "get_current_active_user",
                            status |-> get_current_active_user(tok).status]
            /\ UNCHANGED <<mining_shifts, production_records, equipment, maintenance_logs,
                           mining_shifts_id_seq, production_records_id_seq>>
    /\ UNCHANGED <<users, inflight, jobs>>

(* POST /auth/register: needs no token *)
register(email) ==
    /\ IF get_user_by_email(email) # NULL
       THEN /\ response' = [op |-> "register", status |-> 400]
            /\ UNCHANGED users
       ELSE /\ users' = Insert(users, User(email))
            /\ response' = [op |-> "register", status |-> 201]
    /\ token' = NoToken
    /\ UNCHANGED <<mining_shifts, production_records, equipment, maintenance_logs,
                   mining_shifts_id_seq, production_records_id_seq, inflight, jobs>>

----------------------------------------------------------------------------
(* Requests handled side by side.  Each request runs in its own worker     *)
(* thread on its own session; what another request has committed is seen   *)
(* by the next statement.  A handler that looks a row up and then writes   *)
(* takes one step per statement it sends, and the requests in flight take  *)
(* their steps in any order.                                               *)

MaxInflight == 2

Slots == 1..MaxInflight

(* The requests in flight of one handler *)
InFlight(op) == {slot \in DOMAIN inflight : inflight[slot].op = op}

(* A worker thread takes the request up *)
Arrive(request) ==
    /\ Cardinality(DOMAIN inflight) < MaxInflight
    /\ inflight' = InsertAt(inflight,
                            CHOOSE slot \in Slots \ DOMAIN inflight :
                                \A other \in Slots \ DOMAIN inflight : slot <= other,
                            request)
    /\ UNCHANGED <<mining_shifts, production_records, equipment, maintenance_logs,
                   mining_shifts_id_seq, production_records_id_seq, response,
                   users, token, jobs>>

(* The request is answered and its session closed *)
Answer(slot, answer) ==
    /\ inflight' = Delete(inflight, slot)
    /\ response' = answer

(* The request goes on to its next statement *)
Goto(slot, pc) ==
    /\ inflight' = [inflight EXCEPT ![slot].pc = pc]
    /\ UNCHANGED response

At(slot, op, pc) ==
    /\ slot \in DOMAIN inflight
    /\ inflight[slot].op = op
    /\ inflight[slot].pc = pc

(* A store that does not check the foreign keys of a production record *)
ForeignKeyViolation_unchecked(shift_id, equipment_id) == FALSE

(* shift_id = ForeignKey("mining_shifts.id"), equipment_id =               *)
(* ForeignKey("equipment.id"): the INSERT of a record that names a row     *)
(* which is not there raises IntegrityError                                *)
ForeignKeyViolation(shift_id, equipment_id) ==
    \/ shift_id \notin DOMAIN mining_shifts
    \/ equipment_id # NULL /\ equipment_id \notin DOMAIN equipment

(* An equipment_code column without the unique index *)
UniqueViolation_no_index(equipment_code) == FALSE

(* equipment_code = Column(String(50), unique=True): the INSERT of a code  *)
(* some row holds raises IntegrityError                                    *)
UniqueViolation(equipment_code) ==
    \E e \in DOMAIN equipment : equipment[e].equipment_code = equipment_code

(* POST /production/: MiningService.get_shift, 400 when there is none *)
create_production_record_get_shift(slot) ==
    /\ At(slot, "create_production_record", "get_shift")
    /\ IF inflight[slot].shift_id \notin DOMAIN mining_shifts
       THEN Answer(slot, [op |-> "create_production_record",
                          shift_id |-> inflight[slot].shift_id,
                          equipment_id |-> inflight[slot].equipment_id, status |-> 400])
       ELSE Goto(slot, IF Truthy(inflight[slot].equipment_id)
                       THEN "get_equipment" ELSE "create_production_record")
    /\ UNCHANGED <<mining_shifts, production_records, equipment, maintenance_logs,
                   mining_shifts_id_seq, production_records_id_seq, users, token, jobs>>

(* MiningService.get_equipment for a truthy equipment_id, 400 when there   *)
(* is none                                                                 *)
create_production_record_get_equipment(slot) ==
    /\ At(slot, "create_production_record", "get_equipment")
    /\ IF inflight[slot].equipment_id \notin DOMAIN equipment
       THEN Answer(slot, [op |-> "create_production_record",
                          shift_id |-> inflight[slot].shift_id,
                          equipment_id |-> inflight[slot].equipment_id, status |-> 400])
       ELSE Goto(slot, "create_production_record")
    /\ UNCHANGED <<mining_shifts, production_records, equipment, maintenance_logs,
                   mining_shifts_id_seq, production_records_id_seq, users, token, jobs>>

(* MiningService.create_production_record: db.add and db.commit, the       *)
(* INSERT and its COMMIT.  The foreign keys are checked against the rows   *)
(* that are there now; a violation spends the sequence value, stores no    *)
(* row and is answered 500                                                 *)
create_production_record_commit(slot) ==
    /\ At(slot, "create_production_record", "create_production_record")
    /\ production_records_id_seq' = production_records_id_seq + 1
    /\ IF ForeignKeyViolation(inflight[slot].shift_id, inflight[slot].equipment_id)
       THEN /\ UNCHANGED production_records
            /\ Answer(slot, [op |-> "create_production_record",
                             shift_id |-> inflight[slot].shift_id,
                             equipment_id |-> inflight[slot].equipment_id, status |-> 500])
       ELSE /\ production_records' =
                    InsertAt(production_records, production_records_id_seq + 1,
                             ProductionRecord(inflight[slot].shift_id,
                                              inflight[slot].equipment_id,
                                              inflight[slot].measurement))
            /\ Answer(slot, [op |-> "create_production_record",
                             shift_id |-> inflight[slot].shift_id,
                             equipment_id |-> inflight[slot].equipment_id, status |-> 201])
    /\ UNCHANGED <<mining_shifts, equipment, maintenance_logs, mining_shifts_id_seq,
                   users, token, jobs>>

(* DELETE /shifts/{id}: MiningService.delete_shift queries the shift and   *)
(* returns False, answered 404, when there is none                         *)
delete_shift_query(slot) ==
    /\ At(slot, "delete_shift", "query")
    /\ IF inflight[slot].id \notin DOMAIN mining_shifts
       THEN Answer(slot, [op |-> "delete_shift", id |-> inflight[slot].id, status |-> 404])
       ELSE Goto(slot, "delete")
    /\ UNCHANGED <<mining_shifts, production_records, equipment, maintenance_logs,
                   mining_shifts_id_seq, production_records_id_seq, users, token, jobs>>

(* db.delete(db_shift); db.commit().  A shift another request has deleted  *)
(* meanwhile matches no row (StaleDataError), a shift with records fails   *)
(* on their NOT NULL shift_id (IntegrityError): both are answered 500      *)
delete_shift_commit(slot) ==
    /\ At(slot, "delete_shift", "delete")
    /\ IF \/ inflight[slot].id \notin DOMAIN mining_shifts
          \/ \E r \in DOMAIN production_records :
                production_records[r].shift_id = inflight[slot].id
       THEN /\ UNCHANGED mining_shifts
            /\ Answer(slot, [op |-> "delete_shift", id |-> inflight[slot].id, status |-> 500])
       ELSE /\ mining_shifts' = Delete(mining_shifts, inflight[slot].id)
            /\ Answer(slot, [op |-> "delete_shift", id |-> inflight[slot].id, status |-> 204])
    /\ UNCHANGED <<production_records, equipment, maintenance_logs,
                   mining_shifts_id_seq, production_records_id_seq, users, token, jobs>>

(* POST /equipment/: MiningService.get_equipment_by_code, 400 when a row   *)
(* has the code                                                            *)
create_equipment_get_by_code(slot) ==
    /\ At(slot, "create_equipment", "get_equipment_by_code")
    /\ IF \E e \in DOMAIN equipment :
                equipment[e].equipment_code = inflight[slot].equipment_code
       THEN Answer(slot, [op |-> "create_equipment",
                          equipment_code |-> inflight[slot].equipment_code, status |-> 400])
       ELSE Goto(slot, "create_equipment")
    /\ UNCHANGED <<mining_shifts, production_records, equipment, maintenance_logs,
                   mining_shifts_id_seq, production_records_id_seq, users, token, jobs>>

(* MiningService.create_equipment: db.add and db.commit.  The unique index *)
(* is checked against the rows that are there now; a violation stores no   *)
(* row and is answered 500                                                 *)
create_equipment_commit(slot) ==
    /\ At(slot, "create_equipment", "create_equipment")
    /\ IF UniqueViolation(inflight[slot].equipment_code)
       THEN /\ UNCHANGED equipment
            /\ Answer(slot, [op |-> "create_equipment",
                             equipment_code |-> inflight[slot].equipment_code,
                             status |-> 500])
       ELSE /\ equipment' = Insert(equipment, Equipment(inflight[slot].equipment_code))
            /\ Answer(slot, [op |-> "create_equipment",
                             equipment_code |-> inflight[slot].equipment_code,
                             status |-> 201])
    /\ UNCHANGED <<mining_shifts, production_records, maintenance_logs,
                   mining_shifts_id_seq, production_records_id_seq, users, token, jobs>>

----------------------------------------------------------------------------
(* Scheduled jobs (Celery tasks).  Each invocation opens a session of its  *)
(* own, runs its queries inside try, and closes the session in finally.    *)
(* Operating hours are kept in tenths of an hour; a value rounded to two   *)
(* decimals is kept in hundredths.                                         *)

MaxJobs == 1

JobSlots == 1..MaxJobs

(* The dates date.today() is read as by a job *)
JobTodays == {MaxDate + 1}

(* round(num / den, 2) for den > 0, in hundredths: the nearest hundredth,  *)
(* the even one of two that are equally near                               *)
Round2(num, den) ==
    LET q == (100 * num) \div den
        r == (100 * num) % den
    IN  IF 2 * r < den THEN q
        ELSE IF 2 * r > den THEN q + 1
        ELSE IF q % 2 = 0 THEN q ELSE q + 1

(* The orders a query without ORDER BY may return the rows in *)
AnyOrder(ids) == OrdersDesc(ids, [i \in ids |-> 0])

(* The shifts of the report's day and of every day before it *)
ShiftsOn_through(shift_date) ==
    {s \in DOMAIN mining_shifts : mining_shifts[s].shift_date <= shift_date}

(* filter(MiningShift.shift_date == yesterday) *)
ShiftsOn(shift_date) ==
    {s \in DOMAIN mining_shifts : mining_shifts[s].shift_date = shift_date}

(* generate_daily_report: the three queries on the shifts of yesterday     *)
DailyReport(today) ==
    LET yesterday == today - 1
        rows == JoinedRecords(yesterday, yesterday)
        total_ore == SqlSum(Column(production_records, "ore_extracted_tonnes"), rows)
        total_waste == SqlSum(Column(production_records, "waste_removed_tonnes"), rows)
        avg_grade == OrZeroFrac(SqlAvg(Column(production_records, "ore_grade_percentage"), rows))
        record_count == SqlCount([r \in DOMAIN production_records |-> r], rows)
        shifts == ShiftsOn(yesterday)
        total_shifts == SqlCount([s \in DOMAIN mining_shifts |-> s], shifts)
        total_workers == SqlSum(Column(mining_shifts, "workers_count"), shifts)
        equipment_count == SqlCountDistinct(Column(production_records, "equipment_id"), rows)
    IN  [report_date |-> yesterday,
         production |-> [total_ore_tonnes |-> OrDefault(total_ore, 0),
                         total_waste_tonnes |-> OrDefault(total_waste, 0),
                         average_ore_grade |-> Round2(avg_grade.num, 10 * avg_grade.den),
                         production_records |-> OrDefault(record_count, 0)],
         operations |-> [total_shifts |-> OrDefault(total_shifts, 0),
                         total_workers |-> OrDefault(total_workers, 0),
                         equipment_used |-> OrDefault(equipment_count, 0)],
         status |-> "completed"]

(* process_production_data: the records created in the last hour are the   *)
(* newest ones, those from some id on                                      *)
RecentRecords(first) == {r \in DOMAIN production_records : r >= first}

(* sum(r.ore_extracted_tonnes for r in recent_records) raises TypeError on *)
(* a record whose value is None                                            *)
ProcessingError(first) ==
    IF \E r \in RecentRecords(first) :
            \/ production_records[r].ore_extracted_tonnes = NULL
            \/ production_records[r].waste_removed_tonnes = NULL
    THEN "TypeError" ELSE "none"

ProcessedProduction(first) ==
    [records_processed |-> Cardinality(RecentRecords(first)),
     total_ore_extracted |->
        Total(Column(production_records, "ore_extracted_tonnes"), RecentRecords(first)),
     total_waste_removed |->
        Total(Column(production_records, "waste_removed_tonnes"), RecentRecords(first)),
     status |-> "completed"]

(* An efficiency computed whenever the equipment has an ore total *)
Divides_unguarded(operating_hours, total_ore) == Truthy(total_ore)

(* if r.operating_hours and r.operating_hours > 0 and r.total_ore *)
Divides(operating_hours, total_ore) ==
    Truthy(operating_hours) /\ operating_hours > 0 /\ Truthy(total_ore)

(* r.total_ore / r.operating_hours raises TypeError on None and            *)
(* ZeroDivisionError on 0                                                  *)
DivisionError(operating_hours, total_ore) ==
    IF ~Divides(operating_hours, total_ore) THEN "none"
    ELSE IF operating_hours = NULL THEN "TypeError"
    ELSE IF operating_hours = 0 THEN "ZeroDivisionError"
    ELSE "none"

MetricsError ==
    IF \E e \in DOMAIN equipment :
            DivisionError(equipment[e].operating_hours, UtilizationTotalOre(e)) = "TypeError"
    THEN "TypeError"
    ELSE IF \E e \in DOMAIN equipment :
            DivisionError(equipment[e].operating_hours, UtilizationTotalOre(e))
                = "ZeroDivisionError"
    THEN "ZeroDivisionError"
    ELSE "none"

(* calculate_equipment_metrics: one entry of the outer join grouped by     *)
(* equipment                                                               *)
MetricsRow(e) ==
    LET total_records == SqlCount([r \in DOMAIN production_records |-> r],
                                  RecordsOfEquipment(e))
        total_ore == UtilizationTotalOre(e)
        operating_hours == equipment[e].operating_hours
    IN  [equipment_id |-> e,
         equipment_code |-> equipment[e].equipment_code,
         status |-> equipment[e].status,
         operating_hours |-> OrDefault(operating_hours, 0),
         total_production_records |-> OrDefault(total_records, 0),
         total_ore_extracted |-> OrDefault(total_ore, 0),
         efficiency_tonnes_per_hour |->
            IF /\ Divides(operating_hours, total_ore)
               /\ DivisionError(operating_hours, total_ore) = "none"
            THEN Round2(total_ore, operating_hours) ELSE 0]

(* send_maintenance_alerts: a comparison with a NULL date is not true *)
UpcomingMaintenance(today) ==
    {e \in DOMAIN equipment :
        /\ equipment[e].next_maintenance_date # NULL
        /\ equipment[e].next_maintenance_date >= today
        /\ equipment[e].next_maintenance_date <= today + 7
        /\ equipment[e].status = "operational"}

(* An overdue filter that also takes the equipment due today *)
OverdueMaintenance_through_today(today) ==
    {e \in DOMAIN equipment :
        /\ equipment[e].next_maintenance_date # NULL
        /\ equipment[e].next_maintenance_date <= today
        /\ equipment[e].status = "operational"}

OverdueMaintenance(today) ==
    {e \in DOMAIN equipment :
        /\ equipment[e].next_maintenance_date # NULL
        /\ equipment[e].next_maintenance_date < today
        /\ equipment[e].status = "operational"}

MaintenanceAlerts(today, upcoming, overdue) ==
    [checked_at |-> today,
     upcoming_maintenance |->
        [i \in DOMAIN upcoming |->
            [equipment_code |-> equipment[upcoming[i]].equipment_code,
             maintenance_date |-> equipment[upcoming[i]].next_maintenance_date]],
     overdue_maintenance |->
        [i \in DOMAIN overdue |->
            [equipment_code |-> equipment[overdue[i]].equipment_code,
             overdue_since |-> equipment[overdue[i]].next_maintenance_date]],
     pending_maintenance_logs |->
        Cardinality({l \in DOMAIN maintenance_logs :
                        maintenance_logs[l].is_completed = False}),
     status |-> "completed"]

(* cleanup_old_records: the rows older than the cutoff are counted *)
OldShifts(cutoff_date) ==
    {s \in DOMAIN mining_shifts : mining_shifts[s].shift_date < cutoff_date}

OldMaintenance(cutoff_date) ==
    {l \in DOMAIN maintenance_logs :
        /\ maintenance_logs[l].is_completed = True
        /\ maintenance_logs[l].completed_date # NULL
        /\ maintenance_logs[l].completed_date < cutoff_date}

CleanupResult(today, days_to_keep) ==
    LET cutoff_date == today - days_to_keep
    IN  [cutoff_date |-> cutoff_date,
         shifts_eligible_for_cleanup |-> Cardinality(OldShifts(cutoff_date)),
         maintenance_logs_eligible_for_cleanup |-> Cardinality(OldMaintenance(cutoff_date)),
         status |-> "completed"]

(* export_data: the joined rows of the range are counted *)
ExportResult(start_date, end_date) ==
    [date_range |-> [start |-> start_date, end |-> end_date],
     records_exported |-> Cardinality(JoinedRecords(start_date, end_date)),
     status |-> "completed"]

(* db = get_db_session(): an invocation starts in a worker that runs no    *)
(* other                                                                   *)
job_begin(slot, name) ==
    /\ slot \in DOMAIN jobs => jobs[slot].pc = "done"
    /\ jobs' = [s \in DOMAIN jobs \cup {slot} |->
                    IF s = slot THEN [name |-> name, pc |-> "try", db |-> "open"]
                    ELSE jobs[s]]
    /\ UNCHANGED <<mining_shifts, production_records, equipment, maintenance_logs,
                   mining_shifts_id_seq, production_records_id_seq, response,
                   users, token, inflight>>

(* The try block of a job: a query the store fails raises                  *)
(* OperationalError, the computation may raise an error of its own, and    *)
(* otherwise the job has its result to return                              *)
Try(slot, name, error, result) ==
    /\ slot \in DOMAIN jobs
    /\ jobs[slot].name = name
    /\ jobs[slot].pc = "try"
    /\ \E query_fails \in BOOLEAN :
            jobs' = [jobs EXCEPT ![slot] =
                        IF query_fails
                        THEN [name |-> name, pc |-> "except", db |-> "open",
                              error |-> "OperationalError"]
                        ELSE IF error # "none"
                        THEN [name |-> name, pc |-> "except", db |-> "open",
                              error |-> error]
                        ELSE [name |-> name, pc |-> "return", db |-> "open",
                              result |-> result]]
    /\ UNCHANGED <<mining_shifts, production_records, equipment, maintenance_logs,
                   mining_shifts_id_seq, production_records_id_seq, response,
                   users, token, inflight>>

generate_daily_report(slot) ==
    \E today \in JobTodays :
        Try(slot, "generate_daily_report", "none", DailyReport(today))

process_production_data(slot) ==
    \E first \in 1..MaxRecords + 1 :
        Try(slot, "process_production_data", ProcessingError(first),
            ProcessedProduction(first))

calculate_equipment_metrics(slot) ==
    \E order \in AnyOrder(DOMAIN equipment) :
        Try(slot, "calculate_equipment_metrics", MetricsError,
            [i \in DOMAIN order |-> MetricsRow(order[i])])

send_maintenance_alerts(slot) ==
    \E today \in JobTodays :
        \E upcoming \in AnyOrder(UpcomingMaintenance(today)),
           overdue \in AnyOrder(OverdueMaintenance(today)) :
            Try(slot, "send_maintenance_alerts", "none",
                MaintenanceAlerts(today, upcoming, overdue))

(* A retention check that deletes the shifts it has counted *)
cleanup_old_records_deleting(slot, days_to_keep) ==
    \E today \in JobTodays :
        /\ slot \in DOMAIN jobs
        /\ jobs[slot].name = "cleanup_old_records"
        /\ jobs[slot].pc = "try"
        /\ jobs' = [jobs EXCEPT ![slot] =
                        [name |-> "cleanup_old_records", pc |-> "return", db |-> "open",
                         result |-> CleanupResult(today, days_to_keep)]]
        /\ mining_shifts' =
                [s \in DOMAIN mining_shifts \ OldShifts(today - days_to_keep) |->
                    mining_shifts[s]]
        /\ UNCHANGED <<production_records, equipment, maintenance_logs,
                       mining_shifts_id_seq, production_records_id_seq, response,
                       users, token, inflight>>

(* cleanup_old_records: the rows past the retention horizon are counted *)
cleanup_old_records(slot, days_to_keep) ==
    \E today \in JobTodays :
        Try(slot, "cleanup_old_records", "none", CleanupResult(today, days_to_keep))

(* date.fromisoformat raises ValueError on a string that is no ISO date,   *)
(* which start_date = NULL stands for                                      *)
export_data(slot, start_date, end_date) ==
    Try(slot, "export_data",
        IF start_date = NULL \/ end_date = NULL THEN "ValueError" ELSE "none",
        ExportResult(start_date, end_date))

(* A job that closes its session only after it has its result *)
job_finally_on_success(slot) ==
    /\ slot \in DOMAIN jobs
    /\ jobs[slot].pc \in {"return", "except"}
    /\ jobs' = [jobs EXCEPT ![slot] =
                    IF jobs[slot].pc = "return"
                    THEN [name |-> jobs[slot].name, pc |-> "done", db |-> "closed",
                          outcome |-> "returned", result |-> jobs[slot].result]
                    ELSE [name |-> jobs[slot].name, pc |-> "done", db |-> "open",
                          outcome |-> "raised", error |-> jobs[slot].error]]
    /\ UNCHANGED <<mining_shifts, production_records, equipment, maintenance_logs,
                   mining_shifts_id_seq, production_records_id_seq, response,
                   users, token, inflight>>

(* return report, or except: logger.error(...); raise, and in both cases   *)
(* finally: db.close()                                                     *)
job_finally(slot) ==
    /\ slot \in DOMAIN jobs
    /\ jobs[slot].pc \in {"return", "except"}
    /\ jobs' = [jobs EXCEPT ![slot] =
                    IF jobs[slot].pc = "return"
                    THEN [name |-> jobs[slot].name, pc |-> "done", db |-> "closed",
                          outcome |-> "returned", result |-> jobs[slot].result]
                    ELSE [name |-> jobs[slot].name, pc |-> "done", db |-> "closed",
                          outcome |-> "raised", error |-> jobs[slot].error]]
    /\ UNCHANGED <<mining_shifts, production_records, equipment, maintenance_logs,
                   mining_shifts_id_seq, production_records_id_seq, response,
                   users, token, inflight>>

----------------------------------------------------------------------------

Init ==
    /\ mining_shifts = <<>>
    /\ production_records = <<>>
    /\ equipment = <<>>
    /\ maintenance_logs = <<>>
    /\ mining_shifts_id_seq = 0
    /\ production_records_id_seq = 0
    /\ response = [op |-> "none"]
    /\ users = <<>>
    /\ token = NoToken
    /\ inflight = <<>>
    /\ jobs = <<>>

Next ==
    \/ \E d \in Dates, w \in WorkerCounts : create_shift(d, w) /\ UNCHANGED others
    \/ \E s \in 1..MaxShifts, p \in ShiftPatches : update_shift(s, p) /\ UNCHANGED others
    \/ \E s \in 1..MaxShifts, e \in {NULL} \cup (1..MaxEquipment), m \in Measurements :
            create_production_record(s, e, m) /\ UNCHANGED others
    \/ \E r \in 1..MaxRecords, p \in RecordPatches : update_production_record(r, p) /\ UNCHANGED others
    \/ \E c \in EquipmentCodes : create_equipment(c) /\ UNCHANGED others
    \/ \E a \in Dates, b \in Dates : get_production_stats(a, b) /\ UNCHANGED others
    \/ \E a \in Dates, b \in Dates : get_daily_production(a, b) /\ UNCHANGED others
    \/ get_equipment_utilization /\ UNCHANGED others

Spec == Init /\ [][Next]_vars

----------------------------------------------------------------------------
(* The record access layer: every keyed handler of the four tables, a     *)
(* captured request aimed at an id that exists or not.                     *)

MaxAccessLogs == 1

AccessMeasurements == {m \in Measurements : m.ore_extracted_tonnes = 100}

AccessNext ==
    \/ \E w \in WorkerCounts : create_shift(MaxDate, w) /\ UNCHANGED others
    \/ \E s \in 1..MaxShifts : get_shift(s) /\ UNCHANGED others
    \/ \E s \in 1..MaxShifts, p \in ShiftPatches : update_shift(s, p) /\ UNCHANGED others
    \/ \E s \in 1..MaxShifts : delete_shift(s) /\ UNCHANGED others
    \/ \E s \in 1..MaxShifts, e \in {NULL, 0, 1}, m \in AccessMeasurements :
            create_production_record(s, e, m) /\ UNCHANGED others
    \/ \E r \in 1..MaxRecords : get_production_record(r) /\ UNCHANGED others
    \/ \E r \in 1..MaxRecords, p \in RecordPatches : update_production_record(r, p) /\ UNCHANGED others
    \/ \E c \in EquipmentCodes : create_equipment(c) /\ UNCHANGED others
    \/ \E e \in 1..MaxEquipment : get_equipment(e) /\ UNCHANGED others
    \/ \E e \in 1..MaxEquipment, p \in EquipmentPatches : update_equipment(e, p) /\ UNCHANGED others
    \/ \E e \in 1..MaxEquipment :
            /\ NextId(maintenance_logs) <= MaxAccessLogs
            /\ create_maintenance_log(e) /\ UNCHANGED others
    \/ \E l \in 1..MaxAccessLogs + 1, p \in LogPatches : update_maintenance_log(l, p) /\ UNCHANGED others

AccessSpec == Init /\ [][AccessNext]_vars

----------------------------------------------------------------------------
(* The operations summary beside the three aggregations it is composed     *)
(* from, over a store with one equipment and its maintenance logs.         *)

SummaryEquipment == {1}

SummaryNext ==
    \/ \E d \in Dates, w \in WorkerCounts : create_shift(d, w) /\ UNCHANGED others
    \/ \E s \in 1..MaxShifts, e \in SummaryEquipment, m \in AccessMeasurements :
            create_production_record(s, e, m) /\ UNCHANGED others
    \/ \E c \in SummaryEquipment : create_equipment(c) /\ UNCHANGED others
    \/ \E e \in SummaryEquipment :
            /\ NextId(maintenance_logs) <= MaxLogs
            /\ create_maintenance_log(e) /\ UNCHANGED others
    \/ \E l \in 1..MaxLogs, p \in LogPatches : update_maintenance_log(l, p) /\ UNCHANGED others
    \/ \E t \in Todays : get_summary(t) /\ UNCHANGED others
    \/ get_production_stats(1, MaxDate) /\ UNCHANGED others
    \/ get_daily_production(1, MaxDate) /\ UNCHANGED others
    \/ get_equipment_utilization /\ UNCHANGED others

SummarySpec == Init /\ [][SummaryNext]_vars

----------------------------------------------------------------------------
(* The API as its callers reach it: registration, and requests to the      *)
(* handlers of the five domain routers, each with some Authorization       *)
(* header.  The store the service starts on is empty or holds a user that  *)
(* has been deactivated.  (Spec, AccessSpec and SummarySpec drive the      *)
(* handler bodies alone: the requests the dependency has let through.)     *)

AuthInit ==
    /\ mining_shifts = <<>>
    /\ production_records = <<>>
    /\ equipment = <<>>
    /\ maintenance_logs = <<>>
    /\ mining_shifts_id_seq = 0
    /\ production_records_id_seq = 0
    /\ response = [op |-> "none"]
    /\ users \in { <<>>, <<[email |-> MaxUsers, is_active |-> False]>> }
    /\ token = NoToken
    /\ inflight = <<>>
    /\ jobs = <<>>

AuthNext ==
    \/ \E e \in Emails : NextId(users) <= MaxUsers /\ register(e)
    \/ \E tok \in Tokens, w \in WorkerCounts : Depends(tok, create_shift(MaxDate, w))
    \/ \E tok \in Tokens : Depends(tok, get_shift(1))
    \/ \E tok \in Tokens, p \in ShiftPatches : Depends(tok, update_shift(1, p))
    \/ \E tok \in Tokens : Depends(tok, delete_shift(1))
    \/ \E tok \in Tokens, m \in AccessMeasurements :
            Depends(tok, create_production_record(1, NULL, m))
    \/ \E tok \in Tokens : Depends(tok, get_production_record(1))
    \/ \E tok \in Tokens, p \in RecordPatches : Depends(tok, update_production_record(1, p))
    \/ \E tok \in Tokens : Depends(tok, create_equipment(1))
    \/ \E tok \in Tokens : Depends(tok, get_equipment(1))
    \/ \E tok \in Tokens, p \in EquipmentPatches : Depends(tok, update_equipment(1, p))
    \/ \E tok \in Tokens :
            /\ NextId(maintenance_logs) <= MaxAccessLogs
            /\ Depends(tok, create_maintenance_log(1))
    \/ \E tok \in Tokens, p \in LogPatches : Depends(tok, update_maintenance_log(1, p))
    \/ \E tok \in Tokens : Depends(tok, get_production_stats(1, MaxDate))
    \/ \E tok \in Tokens : Depends(tok, get_daily_production(1, MaxDate))
    \/ \E tok \in Tokens : Depends(tok, get_equipment_utilization)
    \/ \E tok \in Tokens, t \in Todays : Depends(tok, get_summary(t))

AuthSpec == AuthInit /\ [][AuthNext]_vars

----------------------------------------------------------------------------
(* Up to MaxInflight requests in flight at a time: creations of production *)
(* records, deletions of shifts and registrations of equipment, over       *)
(* shifts and an update of equipment that are handled in one piece.        *)

RaceNext ==
    \/ \E w \in WorkerCounts : create_shift(MaxDate, w) /\ UNCHANGED others
    \/ \E e \in 1..MaxEquipment, p \in EquipmentPatches :
            update_equipment(e, p) /\ UNCHANGED others
    \/ \E s \in 1..MaxShifts, e \in {NULL, 1}, m \in AccessMeasurements :
            /\ production_records_id_seq
                    + Cardinality(InFlight("create_production_record")) < MaxRecords
            /\ Arrive([op |-> "create_production_record", pc |-> "get_shift",
                       shift_id |-> s, equipment_id |-> e, measurement |-> m])
    \/ \E slot \in Slots : create_production_record_get_shift(slot)
    \/ \E slot \in Slots : create_production_record_get_equipment(slot)
    \/ \E slot \in Slots : create_production_record_commit(slot)
    \/ \E s \in 1..MaxShifts :
            Arrive([op |-> "delete_shift", pc |-> "query", id |-> s])
    \/ \E slot \in Slots : delete_shift_query(slot)
    \/ \E slot \in Slots : delete_shift_commit(slot)
    \/ \E c \in EquipmentCodes :
            /\ Cardinality(DOMAIN equipment)
                    + Cardinality(InFlight("create_equipment")) < MaxEquipment
            /\ Arrive([op |-> "create_equipment", pc |-> "get_equipment_by_code",
                       equipment_code |-> c])
    \/ \E slot \in Slots : create_equipment_get_by_code(slot)
    \/ \E slot \in Slots : create_equipment_commit(slot)

RaceSpec == Init /\ [][RaceNext]_vars

----------------------------------------------------------------------------
(* The maintenance alert job over a fleet whose status and next            *)
(* maintenance date are set by updates: a date before today, today, seven  *)
(* days ahead and eight days ahead.                                        *)

MaxUpdates == 2

MaintenanceDates == {MaxDate, MaxDate + 1, MaxDate + 8, MaxDate + 9}

AlertPatches ==
    EquipmentPatches \cup { [next_maintenance_date |-> d] : d \in MaintenanceDates }

AlertsNext ==
    \/ \E c \in EquipmentCodes : create_equipment(c) /\ UNCHANGED others
    \/ \E e \in 1..MaxEquipment, p \in AlertPatches :
            /\ e \in DOMAIN equipment => equipment[e].updated_at < MaxUpdates
            /\ update_equipment(e, p) /\ UNCHANGED others
    \/ \E slot \in JobSlots : job_begin(slot, "send_maintenance_alerts")
    \/ \E slot \in JobSlots : send_maintenance_alerts(slot)
    \/ \E slot \in JobSlots : job_finally(slot)

AlertsSpec == Init /\ [][AlertsNext]_vars

----------------------------------------------------------------------------
(* The equipment metrics job over equipment whose operating hours are 0    *)
(* (the column default), set by an update to 3.0 h or to null, with        *)
(* production records booked on the first equipment and none on the other. *)

HoursPatches == { [operating_hours |-> h] : h \in {30, NULL} }

MetricsNext ==
    \/ \E c \in EquipmentCodes : create_equipment(c) /\ UNCHANGED others
    \/ \E e \in 1..MaxEquipment, p \in HoursPatches :
            /\ e \in DOMAIN equipment => equipment[e].updated_at < MaxUpdates
            /\ update_equipment(e, p) /\ UNCHANGED others
    \/ \E w \in WorkerCounts : create_shift(MaxDate, w) /\ UNCHANGED others
    \/ \E m \in AccessMeasurements :
            create_production_record(1, 1, m) /\ UNCHANGED others
    \/ \E r \in 1..MaxRecords, p \in RecordPatches :
            update_production_record(r, p) /\ UNCHANGED others
    \/ \E slot \in JobSlots : job_begin(slot, "calculate_equipment_metrics")
    \/ \E slot \in JobSlots : calculate_equipment_metrics(slot)
    \/ \E slot \in JobSlots : job_finally(slot)

MetricsSpec == Init /\ [][MetricsNext]_vars

----------------------------------------------------------------------------
(* The six jobs over a store that API requests keep changing: shifts of    *)
(* yesterday and of the day before, records with and without equipment and *)
(* with ore set to null, and one maintenance log that gets completed.  The *)
(* retention check runs with a horizon of one day, which puts the cutoff   *)
(* at yesterday.                                                           *)

JobNames ==
    {"generate_daily_report", "process_production_data", "calculate_equipment_metrics",
     "send_maintenance_alerts", "cleanup_old_records", "export_data"}

DaysToKeep == {1}

CompletionPatches == { [is_completed |-> True, completed_date |-> MaxDate - 1] }

ExportDates == {NULL, MaxDate}

JobsNext ==
    \/ \E d \in {MaxDate - 1, MaxDate}, w \in WorkerCounts :
            create_shift(d, w) /\ UNCHANGED others
    \/ \E s \in 1..MaxShifts, e \in {NULL, 1}, m \in AccessMeasurements :
            create_production_record(s, e, m) /\ UNCHANGED others
    \/ \E p \in RecordPatches : update_production_record(1, p) /\ UNCHANGED others
    \/ create_equipment(1) /\ UNCHANGED others
    \/ /\ maintenance_logs = <<>>
       /\ create_maintenance_log(1) /\ UNCHANGED others
    \/ \E p \in CompletionPatches :
            /\ 1 \in DOMAIN maintenance_logs => maintenance_logs[1].updated_at < 1
            /\ update_maintenance_log(1, p) /\ UNCHANGED others
    \/ \E slot \in JobSlots, name \in JobNames : job_begin(slot, name)
    \/ \E slot \in JobSlots : generate_daily_report(slot)
    \/ \E slot \in JobSlots : process_production_data(slot)
    \/ \E slot \in JobSlots : calculate_equipment_metrics(slot)
    \/ \E slot \in JobSlots : send_maintenance_alerts(slot)
    \/ \E slot \in JobSlots, days_to_keep \in DaysToKeep :
            cleanup_old_records(slot, days_to_keep)
    \/ \E slot \in JobSlots, start_date \in ExportDates :
            export_data(slot, start_date, MaxDate)
    \/ \E slot \in JobSlots : job_finally(slot)

JobsSpec == Init /\ [][JobsNext]_vars

----------------------------------------------------------------------------
(* What the statements below are measured against, stated from the tables  *)
(* row by row                                                              *)

(* What a column value adds to a total: nothing when the row has none *)
Amount(v) == IF v = NULL THEN 0 ELSE v

RECURSIVE AmountOver(_, _, _)
AmountOver(table, name, ids) ==
    IF ids = {} THEN 0
    ELSE LET top == CHOOSE i \in ids : \A j \in ids : j <= i
         IN  AmountOver(table, name, ids \ {top}) + Amount(table[top][name])

HasValue(table, name, ids) == {i \in ids : table[i][name] # NULL}

Within(d, start_date, end_date) == start_date <= d /\ d <= end_date

ShiftsDated(start_date, end_date) ==
    {s \in DOMAIN mining_shifts : Within(mining_shifts[s].shift_date, start_date, end_date)}

RecordsOfShift(s) == {r \in DOMAIN production_records : production_records[r].shift_id = s}

RecordsDated(start_date, end_date) ==
    UNION {RecordsOfShift(s) : s \in ShiftsDated(start_date, end_date)}

(* avg is the exact mean of the column over the rows that have a value,    *)
(* and zero when no row has one                                            *)
IsMeanOf(avg, table, name, ids) ==
    LET valued == HasValue(table, name, ids)
    IN  /\ avg.den > 0
        /\ avg.num * Cardinality(valued) = avg.den * AmountOver(table, name, valued)
        /\ valued = {} => avg.num = 0

IsStats == response.op = "get_production_stats"

----------------------------------------------------------------------------
(* C1: total_ore_extracted of get_production_stats is the sum of           *)
(* ore_extracted_tonnes over exactly the production records whose parent   *)
(* shift's date d satisfies start <= d <= end, both ends included: records *)
(* of shifts outside the range add nothing, each record inside is counted  *)
(* once.                                                                   *)
C1_TotalOreIsSumOverRange ==
    IsStats =>
        response.body.total_ore_extracted =
            AmountOver(production_records, "ore_extracted_tonnes",
                       RecordsDated(response.start_date, response.end_date))

(* A one-day range with a record on that day and a record on another day *)
C1_Witness ==
    /\ IsStats
    /\ response.start_date = response.end_date
    /\ \E r \in RecordsDated(response.start_date, response.end_date) :
            production_records[r].ore_extracted_tonnes # NULL
    /\ \E r \in DOMAIN production_records :
            /\ r \notin RecordsDated(response.start_date, response.end_date)
            /\ production_records[r].ore_extracted_tonnes # NULL

(* C2: when no shift and no production record matches the range,           *)
(* get_production_stats returns zero for total_ore_extracted,              *)
(* total_waste_removed, average_ore_grade, total_shifts and                *)
(* average_workers_per_shift, never a null, and echoes the requested       *)
(* start_date and end_date as period_start and period_end.                 *)
C2_EmptyRangeIsAllZero ==
    (/\ IsStats
     /\ ShiftsDated(response.start_date, response.end_date) = {}
     /\ RecordsDated(response.start_date, response.end_date) = {})
    => response.body = [total_ore_extracted |-> 0,
                        total_waste_removed |-> 0,
                        average_ore_grade |-> [num |-> 0, den |-> 1],
                        total_shifts |-> 0,
                        average_workers_per_shift |-> [num |-> 0, den |-> 1],
                        period_start |-> response.start_date,
                        period_end |-> response.end_date]

(* An empty valid range over a store that holds shifts and records *)
C2_Witness ==
    /\ IsStats
    /\ response.start_date <= response.end_date
    /\ ShiftsDated(response.start_date, response.end_date) = {}
    /\ DOMAIN mining_shifts # {}
    /\ DOMAIN production_records # {}

(* C3: average_ore_grade of get_production_stats is the arithmetic mean of *)
(* ore_grade_percentage over the individual records joined to the shifts   *)
(* in the range, each record that carries a grade weighing the same (not   *)
(* weighted by tonnes, not a mean of per-shift means); one shift with      *)
(* records of ore 10.0 and 5.5 and grades 2.0 and 3.0 yields               *)
(* total_ore_extracted 15.5, average_ore_grade 2.5, total_shifts 1.        *)
C3_Scenario ==
    /\ IsStats
    /\ Cardinality(ShiftsDated(response.start_date, response.end_date)) = 1
    /\ \E r1, r2 \in RecordsDated(response.start_date, response.end_date) :
            /\ RecordsDated(response.start_date, response.end_date) = {r1, r2}
            /\ production_records[r1].ore_extracted_tonnes = 100
            /\ production_records[r1].ore_grade_percentage = 20
            /\ production_records[r2].ore_extracted_tonnes = 55
            /\ production_records[r2].ore_grade_percentage = 30

C3_AverageGradeIsRecordMean ==
    /\ IsStats =>
            IsMeanOf(response.body.average_ore_grade, production_records,
                     "ore_grade_percentage",
                     RecordsDated(response.start_date, response.end_date))
    /\ C3_Scenario =>
            /\ response.body.total_ore_extracted = 155
            /\ response.body.average_ore_grade = [num |-> 25, den |-> 1]
            /\ response.body.total_shifts = 1

C3_Witness == C3_Scenario

(* C4: the shift statistics of get_production_stats do not depend on the   *)
(* production records: total_shifts is the number of shifts dated in       *)
(* [start, end], each counted once whether it has no, one or several       *)
(* records, and average_workers_per_shift is the mean of workers_count     *)
(* over those shifts; the production sums are those of the records alone,  *)
(* neither multiplied nor filtered by the shift query.                     *)
C4_ShiftStatsIndependent ==
    IsStats =>
        /\ response.body.total_shifts =
                Cardinality(ShiftsDated(response.start_date, response.end_date))
        /\ IsMeanOf(response.body.average_workers_per_shift, mining_shifts,
                    "workers_count",
                    ShiftsDated(response.start_date, response.end_date))
        /\ response.body.total_waste_removed =
                AmountOver(production_records, "waste_removed_tonnes",
                           RecordsDated(response.start_date, response.end_date))
        /\ response.body.total_ore_extracted =
                AmountOver(production_records, "ore_extracted_tonnes",
                           RecordsDated(response.start_date, response.end_date))

(* Two shifts in the range with different crews: one without records, one  *)
(* with two                                                                *)
C4_Witness ==
    /\ IsStats
    /\ \E s1, s2 \in ShiftsDated(response.start_date, response.end_date) :
            /\ RecordsOfShift(s1) = {}
            /\ Cardinality(RecordsOfShift(s2)) = 2
            /\ mining_shifts[s1].workers_count # mining_shifts[s2].workers_count
    /\ response.body.total_shifts = 2
IsUtilization == response.op = "get_equipment_utilization"

IsDaily == response.op = "get_daily_production"

RecordsOfUnit(e) == {r \in DOMAIN production_records : production_records[r].equipment_id = e}

(* C5: get_equipment_utilization returns exactly one entry per equipment   *)
(* row, none missing and none repeated however many production records     *)
(* reference it, and an equipment without production records appears with  *)
(* total_production_records 0 and total_ore_extracted 0.0.                 *)
C5_OneEntryPerEquipment ==
    IsUtilization =>
        /\ Len(response.body) = Cardinality(DOMAIN equipment)
        /\ \A e \in DOMAIN equipment :
                \E i \in DOMAIN response.body :
                    /\ response.body[i].equipment_code = equipment[e].equipment_code
                    /\ \A j \in DOMAIN response.body :
                            response.body[j].equipment_code = equipment[e].equipment_code
                                => j = i
                    /\ response.body[i].total_production_records =
                            Cardinality(RecordsOfUnit(e))
                    /\ RecordsOfUnit(e) = {} => response.body[i].total_ore_extracted = 0

(* One equipment referenced by two records beside one referenced by none *)
C5_Witness ==
    /\ IsUtilization
    /\ \E e1, e2 \in DOMAIN equipment :
            /\ Cardinality(RecordsOfUnit(e1)) = 2
            /\ RecordsOfUnit(e2) = {}
            /\ \E i \in DOMAIN response.body :
                    /\ response.body[i].equipment_code = equipment[e2].equipment_code
                    /\ response.body[i].total_production_records = 0

(* C6: the sequence get_equipment_utilization returns is non-increasing in *)
(* total_ore_extracted: each entry's total is >= the next entry's, so an    *)
(* equipment without records (a null sum, reported as 0.0) or with a zero  *)
(* sum never precedes one with a positive sum.                             *)
C6_NonIncreasingOre ==
    IsUtilization =>
        \A i, j \in DOMAIN response.body :
            i < j => response.body[i].total_ore_extracted >= response.body[j].total_ore_extracted

(* C7: the sequence get_daily_production returns holds no two entries with *)
(* the same date and is strictly ascending by date, also when several      *)
(* shifts share a date and when a shift has several production records.    *)
C7_DailyStrictlyAscending ==
    IsDaily =>
        \A i, j \in DOMAIN response.body :
            i < j => response.body[i].date < response.body[j].date

(* Two shifts with records on one date, reported as one entry *)
C7_Witness ==
    /\ IsDaily
    /\ \E s1, s2 \in ShiftsDated(response.start_date, response.end_date) :
            /\ s1 # s2
            /\ mining_shifts[s1].shift_date = mining_shifts[s2].shift_date
            /\ RecordsOfShift(s1) # {}
            /\ RecordsOfShift(s2) # {}
    /\ Len(response.body) = 1

(* C8: equipment_used of a get_daily_production entry is the number of     *)
(* distinct non-null equipment ids the production records of that date's   *)
(* shifts reference: an equipment referenced by several records that day   *)
(* counts once, records without equipment add nothing.                     *)
C8_EquipmentUsedDistinct ==
    IsDaily =>
        \A i \in DOMAIN response.body :
            response.body[i].equipment_used =
                Cardinality({production_records[r].equipment_id :
                                r \in RecordsDated(response.body[i].date, response.body[i].date)}
                            \ {NULL})

(* Two records of one day on the same equipment, reported as one *)
C8_Witness ==
    /\ IsDaily
    /\ \E i \in DOMAIN response.body :
            /\ response.body[i].equipment_used = 1
            /\ \E r1, r2 \in RecordsDated(response.body[i].date, response.body[i].date) :
                    /\ r1 # r2
                    /\ production_records[r1].equipment_id # NULL
                    /\ production_records[r1].equipment_id = production_records[r2].equipment_id

(* C9: get_daily_production emits an entry for a date d exactly when       *)
(* start <= d <= end and at least one production record belongs to a shift *)
(* dated d; a date in the range with no shift, or only with shifts without *)
(* records, is absent (no zero-filled rows).                               *)
C9_EntryIffRecordOnDate ==
    IsDaily =>
        {response.body[i].date : i \in DOMAIN response.body} =
            {d \in Dates : /\ Within(d, response.start_date, response.end_date)
                           /\ RecordsDated(d, d) # {}}

(* A range holding a date with an entry, a date whose only shift has no    *)
(* record, and so no entry for it                                          *)
C9_Witness ==
    /\ IsDaily
    /\ Len(response.body) = 1
    /\ \E s \in ShiftsDated(response.start_date, response.end_date) :
            /\ RecordsOfShift(s) = {}
            /\ mining_shifts[s].shift_date # response.body[1].date

(* C10: shift_count of a get_daily_production entry is the number of       *)
(* distinct shifts of that date that have at least one production record   *)
(* (a shift with several records counts once) and total_ore is the sum of  *)
(* ore over all records of those shifts; two shifts on different dates     *)
(* with one 10.0-tonne record each give two entries, each with total_ore   *)
(* 10.0 and shift_count 1.                                                 *)
C10_Scenario ==
    /\ IsDaily
    /\ \E s1, s2 \in ShiftsDated(response.start_date, response.end_date) :
            /\ mining_shifts[s1].shift_date # mining_shifts[s2].shift_date
            /\ DOMAIN mining_shifts = {s1, s2}
            /\ \E r1, r2 \in DOMAIN production_records :
                    /\ DOMAIN production_records = {r1, r2}
                    /\ RecordsOfShift(s1) = {r1}
                    /\ RecordsOfShift(s2) = {r2}
                    /\ production_records[r1].ore_extracted_tonnes = 100
                    /\ production_records[r2].ore_extracted_tonnes = 100

C10_ShiftCountAndTotalOre ==
    /\ IsDaily =>
            \A i \in DOMAIN response.body :
                LET d == response.body[i].date
                IN  /\ response.body[i].shift_count =
                            Cardinality({s \in ShiftsDated(d, d) : RecordsOfShift(s) # {}})
                    /\ response.body[i].total_ore =
                            AmountOver(production_records, "ore_extracted_tonnes",
                                       RecordsDated(d, d))
    /\ C10_Scenario =>
            /\ Len(response.body) = 2
            /\ \A i \in DOMAIN response.body :
                    /\ response.body[i].total_ore = 100
                    /\ response.body[i].shift_count = 1

C10_Witness == C10_Scenario

----------------------------------------------------------------------------
IsAggregation ==
    response.op \in {"get_production_stats", "get_daily_production",
                     "get_equipment_utilization"}

(* The step is a second call of the operation that answered last, with the *)
(* same inputs; an aggregation writes nothing, so no write lies between    *)
SameCallAgain ==
    /\ IsAggregation
    /\ response'.op = response.op
    /\ response.op # "get_equipment_utilization" =>
            /\ response'.start_date = response.start_date
            /\ response'.end_date = response.end_date
    /\ mining_shifts' = mining_shifts
    /\ production_records' = production_records
    /\ equipment' = equipment
    /\ maintenance_logs' = maintenance_logs

(* The part of C11 about the two date-ranged aggregations alone *)
RangedCallRepeats ==
    [][(SameCallAgain /\ response.op # "get_equipment_utilization")
            => response'.body = response.body]_vars

(* C11: calling get_production_stats, get_daily_production or              *)
(* get_equipment_utilization twice with identical inputs and no write in   *)
(* between yields identical output, the order of the returned sequence     *)
(* included, also among equipment entries with equal total_ore_extracted.  *)
C11_RepeatedCallSameOutput ==
    [][SameCallAgain => response'.body = response.body]_vars

(* C13: when start_date > end_date, get_production_stats raises no error   *)
(* and returns the all-zero report with the given dates echoed, and        *)
(* get_daily_production returns the empty sequence, whatever the store     *)
(* holds.                                                                  *)
C13_InvertedRangeIsEmpty ==
    /\ (IsStats /\ response.start_date > response.end_date) =>
            response.body = [total_ore_extracted |-> 0,
                             total_waste_removed |-> 0,
                             average_ore_grade |-> [num |-> 0, den |-> 1],
                             total_shifts |-> 0,
                             average_workers_per_shift |-> [num |-> 0, den |-> 1],
                             period_start |-> response.start_date,
                             period_end |-> response.end_date]
    /\ (IsDaily /\ response.start_date > response.end_date) =>
            response.body = <<>>

(* The statistics asked for an inverted range whose two end dates both     *)
(* carry a shift with a record                                             *)
C13_Witness ==
    /\ IsStats
    /\ response.start_date > response.end_date
    /\ RecordsDated(response.start_date, response.start_date) # {}
    /\ RecordsDated(response.end_date, response.end_date) # {}
    /\ response.body.total_shifts = 0

----------------------------------------------------------------------------
IsSummary == response.op = "get_summary"

StoreUnchanged ==
    /\ mining_shifts' = mining_shifts
    /\ production_records' = production_records
    /\ equipment' = equipment
    /\ maintenance_logs' = maintenance_logs
    /\ mining_shifts_id_seq' = mining_shifts_id_seq
    /\ production_records_id_seq' = production_records_id_seq

C14_SevenDateWindow ==
    IsSummary =>
        /\ response.body.period.end = response.today
        /\ Cardinality(response.body.period.start..response.body.period.end) = 7
        /\ response.body.production.total_shifts =
                Cardinality(ShiftsDated(response.today - 6, response.today))

(* C15: pending_maintenance of the summary is the number of maintenance    *)
(* log rows whose is_completed is false, however many there are.           *)
C15_PendingCountsAllIncomplete ==
    IsSummary =>
        response.body.pending_maintenance =
            Cardinality({l \in DOMAIN maintenance_logs :
                            maintenance_logs[l].is_completed = False})

----------------------------------------------------------------------------
(* The keyed updates, seen from outside as one step from the store before  *)
(* to the store after                                                      *)

(* The step rewrote the addressed row of the table by one of the update    *)
(* requests: every other row is as before, the fields the request carries  *)
(* hold the requested values, and every field it does not carry, the ones  *)
(* set apart excepted, holds its previous value                            *)
TouchesOnly(before, after, patches, apart) ==
    \E update_data \in patches :
        /\ DOMAIN after = DOMAIN before
        /\ \A i \in DOMAIN before \ {response'.id} : after[i] = before[i]
        /\ \A key \in DOMAIN update_data : after[response'.id][key] = update_data[key]
        /\ \A key \in DOMAIN before[response'.id] \ (DOMAIN update_data \cup apart) :
                after[response'.id][key] = before[response'.id][key]

PartialUpdate(apart) ==
    /\ (response'.op = "update_shift" /\ response'.id \in DOMAIN mining_shifts) =>
            /\ TouchesOnly(mining_shifts, mining_shifts', ShiftPatches, apart)
            /\ production_records' = production_records
            /\ equipment' = equipment
            /\ maintenance_logs' = maintenance_logs
    /\ (response'.op = "update_production_record"
            /\ response'.id \in DOMAIN production_records) =>
            /\ TouchesOnly(production_records, production_records', RecordPatches, apart)
            /\ mining_shifts' = mining_shifts
            /\ equipment' = equipment
            /\ maintenance_logs' = maintenance_logs
    /\ (response'.op = "update_equipment" /\ response'.id \in DOMAIN equipment) =>
            /\ TouchesOnly(equipment, equipment', EquipmentPatches, apart)
            /\ mining_shifts' = mining_shifts
            /\ production_records' = production_records
            /\ maintenance_logs' = maintenance_logs
    /\ (response'.op = "update_maintenance_log"
            /\ response'.id \in DOMAIN maintenance_logs) =>
            /\ TouchesOnly(maintenance_logs, maintenance_logs', LogPatches, apart)
            /\ mining_shifts' = mining_shifts
            /\ production_records' = production_records
            /\ equipment' = equipment

(* C16 as stated: an update of a shift, production record, equipment or    *)
(* maintenance log by id modifies only the fields explicitly present in    *)
(* the update request and only on the addressed row: every field absent    *)
(* from the request keeps its previous value, and every other row of every *)
(* table is unchanged.                                                     *)
C16_OnlyRequestedFieldsChange == [][PartialUpdate({})]_vars

(* C16, amended: an update by id modifies, on the addressed row only, the  *)
(* fields present in the update request and the row's updated_at, which    *)
(* every UPDATE statement sets anew; every other field keeps its previous  *)
(* value, and every other row of every table is unchanged.                 *)
C16_OnlyRequestedFieldsAndUpdatedAtChange == [][PartialUpdate({"updated_at"})]_vars

(* A shift got its crew changed beside a second shift that was left alone *)
C16_Witness ==
    /\ response.op = "update_shift"
    /\ response.status = 200
    /\ response.id \in DOMAIN mining_shifts
    /\ mining_shifts[response.id].workers_count = 5
    /\ mining_shifts[response.id].updated_at = 1
    /\ \E s \in DOMAIN mining_shifts :
            /\ s # response.id
            /\ mining_shifts[s].workers_count = 2
            /\ mining_shifts[s].updated_at = 0

(* The request of the step that answers is keyed by an id of no row *)
MissesItsRow ==
    \/ /\ response'.op \in {"get_shift", "update_shift", "delete_shift"}
       /\ response'.id \notin DOMAIN mining_shifts
    \/ /\ response'.op \in {"get_production_record", "update_production_record"}
       /\ response'.id \notin DOMAIN production_records
    \/ /\ response'.op \in {"get_equipment", "update_equipment"}
       /\ response'.id \notin DOMAIN equipment
    \/ /\ response'.op = "update_maintenance_log"
       /\ response'.id \notin DOMAIN maintenance_logs

KeyedOps ==
    {"get_shift", "update_shift", "delete_shift",
     "get_production_record", "update_production_record",
     "get_equipment", "update_equipment", "update_maintenance_log"}

(* C17: a keyed get, update or delete whose id matches no existing row     *)
(* reports not found (404, which is not the 400 of a validation or         *)
(* duplicate failure) and leaves the data store unchanged: it creates no   *)
(* row and modifies no other row; a keyed request that finds its row is    *)
(* never answered 404.                                                     *)
C17_MissingIdIsNotFound ==
    [][response'.op \in KeyedOps =>
            /\ MissesItsRow <=> response'.status = 404
            /\ MissesItsRow => StoreUnchanged]_vars

(* A delete aimed at a shift that is not there, in a store that holds      *)
(* another shift with a record                                             *)
C17_Witness ==
    /\ response.op = "delete_shift"
    /\ response.status = 404
    /\ response.id \notin DOMAIN mining_shifts
    /\ DOMAIN mining_shifts # {}
    /\ DOMAIN production_records # {}

(* C18: a create-production-record request whose shift_id matches no       *)
(* existing shift, or whose supplied equipment_id matches no existing      *)
(* equipment, is rejected with 400 and inserts no production record; a     *)
(* request that passes both checks inserts exactly one record, which       *)
(* carries the requested shift_id and equipment_id.                        *)
C18_RecordNeedsShiftAndEquipment ==
    [][response'.op = "create_production_record" =>
        IF \/ response'.shift_id \notin DOMAIN mining_shifts
           \/ /\ response'.equipment_id # NULL
              /\ response'.equipment_id \notin DOMAIN equipment
        THEN /\ response'.status = 400
             /\ production_records' = production_records
        ELSE /\ response'.status = 201
             /\ \E r \in DOMAIN production_records' \ DOMAIN production_records :
                    /\ DOMAIN production_records' = DOMAIN production_records \cup {r}
                    /\ production_records'[r].shift_id = response'.shift_id
                    /\ production_records'[r].equipment_id = response'.equipment_id
                    /\ \A other \in DOMAIN production_records :
                            production_records'[other] = production_records[other]]_vars

(* C19: delete_shift on an existing shift removes that shift row and       *)
(* returns success also when production records reference the shift; it    *)
(* neither blocks on nor deletes those records, which stay in the store    *)
(* with their shift_id unchanged.                                          *)
C19_DeleteShiftOrphansRecords ==
    [][(response'.op = "delete_shift" /\ response'.id \in DOMAIN mining_shifts) =>
            /\ response'.status = 204
            /\ mining_shifts' = Delete(mining_shifts, response'.id)
            /\ production_records' = production_records]_vars

(* C20: a create-equipment request whose equipment_code is the code of an  *)
(* existing equipment row is rejected with 400 and leaves the equipment    *)
(* table unchanged; a creation with a fresh code succeeds with 201 and     *)
(* adds exactly one row, which carries that code.                          *)
C20_DuplicateCodeRejected ==
    [][response'.op = "create_equipment" =>
        IF \E e \in DOMAIN equipment :
                equipment[e].equipment_code = response'.equipment_code
        THEN /\ response'.status = 400
             /\ equipment' = equipment
        ELSE /\ response'.status = 201
             /\ \E e \in DOMAIN equipment' \ DOMAIN equipment :
                    /\ DOMAIN equipment' = DOMAIN equipment \cup {e}
                    /\ equipment'[e].equipment_code = response'.equipment_code
                    /\ \A other \in DOMAIN equipment : equipment'[other] = equipment[other]]_vars

(* The code of the one equipment in the store asked for a second time *)
C20_Witness ==
    /\ response.op = "create_equipment"
    /\ response.status = 400
    /\ Cardinality(DOMAIN equipment) = 1
    /\ \E e \in DOMAIN equipment : equipment[e].equipment_code = response.equipment_code

----------------------------------------------------------------------------
(* Requests with and without credentials (AuthSpec) *)

(* The token is one the verification accepts: a Bearer token whose         *)
(* signature verifies, that has not expired and that names an email        *)
ValidToken(tok) == tok.scheme = "bearer" /\ tok.signed /\ ~tok.expired /\ tok.sub # NULL

(* The step answers a request to a handler of a domain router *)
ProtectedRequest == response'.op # "register"

(* The step ran the body of such a handler *)
HandlerBodyRan == response'.op \notin {"register", "get_current_active_user"}

(* C21: every request to a shifts, production, equipment, maintenance or   *)
(* analytics endpoint that carries no valid token is answered 401, with    *)
(* nothing of the store in the answer and no table written; a handler body *)
(* runs only after the token verification has yielded an email that        *)
(* belongs to an existing, active user.                                    *)
C21_NoValidTokenIsUnauthorized ==
    [][ProtectedRequest =>
            /\ ~ValidToken(token') =>
                    /\ response' = [op |-> "get_current_active_user", status |-> 401]
                    /\ StoreUnchanged
                    /\ users' = users
            /\ HandlerBodyRan =>
                    /\ ValidToken(token')
                    /\ \E u \in DOMAIN users :
                            /\ users[u].email = token'.sub
                            /\ users[u].is_active = True]_vars

(* The expired token of a registered, active user, turned away from a      *)
(* store that holds a shift                                                *)
C21_Witness ==
    /\ response = [op |-> "get_current_active_user", status |-> 401]
    /\ token.signed /\ token.expired
    /\ \E u \in DOMAIN users : users[u].email = token.sub /\ users[u].is_active = True
    /\ DOMAIN mining_shifts # {}

----------------------------------------------------------------------------
(* The metrics of the stored production records (AccessSpec) *)

(* C22: after any sequence of accepted create-production-record and        *)
(* update-production-record requests, every production record's            *)
(* ore_extracted_tonnes and waste_removed_tonnes is a non-null value >= 0  *)
(* and its ore_grade_percentage lies in 0..100 (0..1000 tenths), also      *)
(* after an update request that supplies such a field explicitly as null.  *)
C22_MetricsNonNullInRange ==
    \A r \in DOMAIN production_records :
        /\ production_records[r].ore_extracted_tonnes # NULL
        /\ production_records[r].ore_extracted_tonnes >= 0
        /\ production_records[r].waste_removed_tonnes # NULL
        /\ production_records[r].waste_removed_tonnes >= 0
        /\ production_records[r].ore_grade_percentage # NULL
        /\ production_records[r].ore_grade_percentage >= 0
        /\ production_records[r].ore_grade_percentage <= 1000

----------------------------------------------------------------------------
(* Requests in flight side by side (RaceSpec) *)

(* Every production record the step inserts names a shift that is in the   *)
(* table when the step is taken, and still is after it                     *)
InsertedRecordHasItsShift ==
    \A r \in DOMAIN production_records' \ DOMAIN production_records :
        /\ production_records'[r].shift_id \in DOMAIN mining_shifts
        /\ production_records'[r].shift_id \in DOMAIN mining_shifts'

(* The creations in flight that have found their shift and not yet sent    *)
(* their INSERT                                                            *)
CheckedCreations ==
    {slot \in InFlight("create_production_record") : inflight[slot].pc # "get_shift"}

(* C23 as stated: under every interleaving of a create-production-record   *)
(* request with a concurrent delete-shift request for the same shift,      *)
(* every production record that gets inserted references a shift that      *)
(* exists at the moment of the insert, and the existence check and the     *)
(* insert cannot be separated by the deletion of that shift: no step       *)
(* removes a shift that a creation in flight has checked.                  *)
C23_CheckAndInsertInseparable ==
    [][/\ InsertedRecordHasItsShift
       /\ \A slot \in CheckedCreations :
                inflight[slot].shift_id \in DOMAIN mining_shifts =>
                    inflight[slot].shift_id \in DOMAIN mining_shifts']_vars

(* C23, amended: every production record that gets inserted references a   *)
(* shift that exists at the moment of the insert; the deletion of the      *)
(* shift can fall between the existence check and the insert, and the      *)
(* store's foreign key then refuses the insert: the creation stores no     *)
(* record and is answered 500.                                             *)
C23_InsertedRecordReferencesShift ==
    [][/\ InsertedRecordHasItsShift
       /\ \A slot \in CheckedCreations :
                (/\ slot \notin DOMAIN inflight'
                 /\ inflight[slot].pc = "create_production_record"
                 /\ inflight[slot].shift_id \notin DOMAIN mining_shifts) =>
                    /\ production_records' = production_records
                    /\ response'.op = "create_production_record"
                    /\ response'.status = 500]_vars

(* A creation without equipment that found its shift, lost it to a         *)
(* deletion and was refused at its INSERT                                  *)
C23_Witness ==
    /\ response.op = "create_production_record"
    /\ response.status = 500
    /\ response.equipment_id = NULL
    /\ response.shift_id \notin DOMAIN mining_shifts
    /\ production_records = <<>>

(* No two rows of the equipment table hold the same equipment_code *)
EquipmentCodesUnique ==
    \A a, b \in DOMAIN equipment :
        a # b => equipment[a].equipment_code # equipment[b].equipment_code

(* The step leaves every equipment row its equipment_code *)
EquipmentCodesKept ==
    \A e \in DOMAIN equipment :
        /\ e \in DOMAIN equipment'
        /\ equipment'[e].equipment_code = equipment[e].equipment_code

(* C24: under every interleaving of concurrent create-equipment requests   *)
(* (each doing lookup-by-code then insert), the equipment table never      *)
(* holds two rows with the same equipment_code, and since no update can    *)
(* change equipment_code this uniqueness holds in every reachable state.   *)
C24_EquipmentCodeStaysUnique ==
    /\ [](EquipmentCodesUnique)
    /\ [][EquipmentCodesKept]_vars

(* Two registrations of one code that both passed the lookup: the first    *)
(* has stored its row, the second was refused at its INSERT                *)
C24_Witness ==
    /\ response.op = "create_equipment"
    /\ response.status = 500
    /\ \E e \in DOMAIN equipment : equipment[e].equipment_code = response.equipment_code
    /\ EquipmentCodesUnique

----------------------------------------------------------------------------
(* Scheduled jobs *)

(* The step is the try block of the named job in the slot, run to its      *)
(* result                                                                  *)
Computes(slot, name) ==
    /\ slot \in DOMAIN jobs
    /\ jobs[slot].name = name
    /\ jobs[slot].pc = "try"
    /\ jobs'[slot].pc = "return"

(* The equipment codes a list of alert entries names *)
CodesIn(entries) == {entries[i].equipment_code : i \in DOMAIN entries}

(* C25: in send_maintenance_alerts, the upcoming list contains exactly the *)
(* equipment with status operational whose next_maintenance_date d         *)
(* satisfies today <= d <= today + 7 days, and the overdue list exactly    *)
(* the operational equipment with d < today; no equipment is in both       *)
(* lists, and equipment that is not operational or has no                  *)
(* next_maintenance_date is in neither.                                    *)
C25_AlertListsPartitionDueEquipment ==
    [][\A slot \in JobSlots : Computes(slot, "send_maintenance_alerts") =>
        LET alerts == jobs'[slot].result
            today == alerts.checked_at
            upcoming == CodesIn(alerts.upcoming_maintenance)
            overdue == CodesIn(alerts.overdue_maintenance)
        IN  /\ Len(alerts.upcoming_maintenance) = Cardinality(upcoming)
            /\ Len(alerts.overdue_maintenance) = Cardinality(overdue)
            /\ upcoming \cap overdue = {}
            /\ \A e \in DOMAIN equipment :
                LET d == equipment[e].next_maintenance_date
                    operational == equipment[e].status = "operational"
                IN  /\ equipment[e].equipment_code \in upcoming <=>
                            (operational /\ d # NULL /\ today <= d /\ d <= today + 7)
                    /\ equipment[e].equipment_code \in overdue <=>
                            (operational /\ d # NULL /\ d < today)
                    /\ (~operational \/ d = NULL) =>
                            equipment[e].equipment_code \notin upcoming \cup overdue]_vars

(* The alerts computed over one equipment due in exactly seven days and    *)
(* one that was due yesterday                                              *)
C25_Witness ==
    \E slot \in DOMAIN jobs :
        /\ jobs[slot].name = "send_maintenance_alerts"
        /\ jobs[slot].pc = "return"
        /\ Len(jobs[slot].result.upcoming_maintenance) = 1
        /\ jobs[slot].result.upcoming_maintenance[1].maintenance_date
                = jobs[slot].result.checked_at + 7
        /\ Len(jobs[slot].result.overdue_maintenance) = 1
        /\ jobs[slot].result.overdue_maintenance[1].overdue_since
                = jobs[slot].result.checked_at - 1

----------------------------------------------------------------------------
(* The equipment metrics job *)

TotalOreOf(e) == AmountOver(production_records, "ore_extracted_tonnes", RecordsOfUnit(e))

(* The equipment has operating hours, more than zero, and a non-zero ore total *)
HasEfficiency(e) ==
    /\ equipment[e].operating_hours # NULL
    /\ equipment[e].operating_hours > 0
    /\ TotalOreOf(e) # 0

(* The job leaves its try block: by returning its result or by raising *)
LeavesTry(slot, name) ==
    /\ slot \in DOMAIN jobs
    /\ jobs[slot].name = name
    /\ jobs[slot].pc = "try"
    /\ jobs'[slot].pc # "try"

NoDivisionByZeroOrMissing(slot) ==
    jobs'[slot].pc = "except" => jobs'[slot].error = "OperationalError"

OneMetricsEntryPerEquipment(slot) ==
    /\ Len(jobs'[slot].result) = Cardinality(DOMAIN equipment)
    /\ {jobs'[slot].result[i].equipment_id : i \in DOMAIN jobs'[slot].result}
            = DOMAIN equipment

Abs(n) == IF n < 0 THEN -n ELSE n

(* C26 as stated: calculate_equipment_metrics reports, for every equipment *)
(* that has operating hours above zero and a non-zero ore total, an        *)
(* efficiency equal to the ore total divided by the operating hours, and 0 *)
(* for every other equipment; it never divides by zero or by a missing     *)
(* value.  The efficiency is held in hundredths.                           *)
C26_EfficiencyIsTheQuotient ==
    [][\A slot \in JobSlots :
        LeavesTry(slot, "calculate_equipment_metrics") =>
            /\ NoDivisionByZeroOrMissing(slot)
            /\ jobs'[slot].pc = "return" =>
                /\ OneMetricsEntryPerEquipment(slot)
                /\ \A i \in DOMAIN jobs'[slot].result :
                    LET row == jobs'[slot].result[i]
                        e == row.equipment_id
                    IN  IF HasEfficiency(e)
                        THEN row.efficiency_tonnes_per_hour * equipment[e].operating_hours
                                = 100 * TotalOreOf(e)
                        ELSE row.efficiency_tonnes_per_hour = 0]_vars

(* C26 amended: the efficiency reported for such an equipment is the ore   *)
(* total divided by the operating hours rounded to two decimal places (it  *)
(* is within half a hundredth of the quotient), 0 for every other          *)
(* equipment, and the job never divides by zero or by a missing value.     *)
C26_EfficiencyIsTheRoundedQuotient ==
    [][\A slot \in JobSlots :
        LeavesTry(slot, "calculate_equipment_metrics") =>
            /\ NoDivisionByZeroOrMissing(slot)
            /\ jobs'[slot].pc = "return" =>
                /\ OneMetricsEntryPerEquipment(slot)
                /\ \A i \in DOMAIN jobs'[slot].result :
                    LET row == jobs'[slot].result[i]
                        e == row.equipment_id
                    IN  IF HasEfficiency(e)
                        THEN 2 * Abs(100 * TotalOreOf(e)
                                     - row.efficiency_tonnes_per_hour
                                        * equipment[e].operating_hours)
                                <= equipment[e].operating_hours
                        ELSE row.efficiency_tonnes_per_hour = 0]_vars

(* The job has returned metrics with a non-zero efficiency for one         *)
(* equipment and 0 for an equipment whose operating hours are 0 or null    *)
C26_Witness ==
    \E slot \in DOMAIN jobs :
        /\ jobs[slot].name = "calculate_equipment_metrics"
        /\ jobs[slot].pc = "return"
        /\ \E i, j \in DOMAIN jobs[slot].result :
            /\ jobs[slot].result[i].efficiency_tonnes_per_hour > 0
            /\ HasEfficiency(jobs[slot].result[i].equipment_id)
            /\ jobs[slot].result[j].efficiency_tonnes_per_hour = 0
            /\ ~Truthy(equipment[jobs[slot].result[j].equipment_id].operating_hours)

----------------------------------------------------------------------------
(* The jobs and the store *)

(* A step of a job: its start, its try block or its end *)
JobStep == jobs' # jobs

ShiftsBefore(cutoff_date) ==
    {s \in DOMAIN mining_shifts : mining_shifts[s].shift_date < cutoff_date}

CompletedBefore(cutoff_date) ==
    {l \in DOMAIN maintenance_logs :
        /\ maintenance_logs[l].is_completed = True
        /\ maintenance_logs[l].completed_date # NULL
        /\ maintenance_logs[l].completed_date < cutoff_date}

Ended(slot) == slot \in DOMAIN jobs /\ jobs[slot].pc = "done"

SessionsClosedAtEnd == \A slot \in JobSlots : Ended(slot) => jobs[slot].db = "closed"

(* The step after a failed query: the error goes to the caller, the job is *)
(* not run again and it carries no report                                  *)
FailureIsReRaised ==
    \A slot \in JobSlots :
        (slot \in DOMAIN jobs /\ jobs[slot].pc = "except" /\ jobs'[slot] # jobs[slot]) =>
            /\ jobs'[slot].pc = "done"
            /\ jobs'[slot].name = jobs[slot].name
            /\ jobs'[slot].outcome = "raised"
            /\ jobs'[slot].error = jobs[slot].error
            /\ "result" \notin DOMAIN jobs'[slot]
            /\ jobs'[slot].db = "closed"

(* A query that fails in the try block takes the job to its except clause  *)
(* with nothing to return                                                  *)
FailureHasNoReport ==
    \A slot \in JobSlots :
        (slot \in DOMAIN jobs /\ jobs[slot].pc = "try" /\ jobs'[slot].pc = "except") =>
            "result" \notin DOMAIN jobs'[slot]

SuccessClosesToo ==
    \A slot \in JobSlots :
        (slot \in DOMAIN jobs /\ jobs[slot].pc = "return" /\ jobs'[slot] # jobs[slot]) =>
            /\ jobs'[slot].pc = "done"
            /\ jobs'[slot].outcome = "returned"
            /\ jobs'[slot].result = jobs[slot].result
            /\ jobs'[slot].db = "closed"

(* C28: a job in which a store query fails re-raises the error to its      *)
(* caller, is not retried and returns no report, neither a partial one nor *)
(* one with status completed; its session is closed when it ends, as on    *)
(* the success path, so that no session outlives the invocation that       *)
(* opened it.                                                              *)
C28_FailedJobReRaisesAndCloses ==
    /\ [](SessionsClosedAtEnd)
    /\ [][FailureHasNoReport /\ FailureIsReRaised /\ SuccessClosesToo]_vars

(* A job has ended by raising the error of a failed query, its session     *)
(* closed                                                                  *)
C28_Witness ==
    \E slot \in DOMAIN jobs :
        /\ jobs[slot].pc = "done"
        /\ jobs[slot].outcome = "raised"
        /\ jobs[slot].error = "OperationalError"
        /\ jobs[slot].db = "closed"

----------------------------------------------------------------------------
(* The daily entries against the statistics of the period *)

RECURSIVE SumOfEntries(_, _)
SumOfEntries(entries, name) ==
    IF entries = <<>> THEN 0
    ELSE entries[1][name] + SumOfEntries(Tail(entries), name)

ShiftsOfPeriod(start_date, end_date) ==
    {s \in DOMAIN mining_shifts : Within(mining_shifts[s].shift_date, start_date, end_date)}

EveryShiftHasARecord(start_date, end_date) ==
    \A s \in ShiftsOfPeriod(start_date, end_date) :
        \E r \in DOMAIN production_records : production_records[r].shift_id = s

(* C29: for every store and every date range, total_ore and total_waste    *)
(* summed over the entries of get_daily_production equal                   *)
(* total_ore_extracted and total_waste_removed of get_production_stats for *)
(* the same range, and the entries' shift_count sums to at most            *)
(* total_shifts, to exactly total_shifts if and only if every shift of the *)
(* range has a production record.  The answer is compared in the state it  *)
(* was computed from: the store is as the request read it for as long as   *)
(* its answer is the last one.                                             *)
C29_DailyEntriesAddUpToStats ==
    response.op = "get_daily_production" =>
        LET entries == response.body
            stats == ProductionStats(response.start_date, response.end_date)
        IN  /\ SumOfEntries(entries, "total_ore") = stats.total_ore_extracted
            /\ SumOfEntries(entries, "total_waste") = stats.total_waste_removed
            /\ SumOfEntries(entries, "shift_count") <= stats.total_shifts
            /\ SumOfEntries(entries, "shift_count") = stats.total_shifts
                <=> EveryShiftHasARecord(response.start_date, response.end_date)

(* get_daily_production has answered over a range in which one shift has   *)
(* two records and another has none                                        *)
C29_Witness ==
    /\ response.op = "get_daily_production"
    /\ Len(response.body) = 1
    /\ SumOfEntries(response.body, "total_ore") > 0
    /\ \E s \in ShiftsOfPeriod(response.start_date, response.end_date) :
            Cardinality({r \in DOMAIN production_records :
                            production_records[r].shift_id = s}) = 2
    /\ ~EveryShiftHasARecord(response.start_date, response.end_date)

----------------------------------------------------------------------------
(* The daily report against the analytics of its day *)

EquipmentUsedOn(date) ==
    IF DailyProduction(date, date) = <<>> THEN 0
    ELSE DailyProduction(date, date)[1].equipment_used

============================================================================
